---------------------------- MODULE Spec2Model ----------------------------
(***************************************************************************)
(* striptls: an intercepting TCP proxy that audits STARTTLS-class          *)
(* upgrades.  The model follows src/striptls/striptls.py: TcpSockBuff,     *)
(* ProtocolDetect, Session, ProxyServer.main_loop, the Vectors catalogue   *)
(* and RewriteDispatcher.                                                  *)
(*                                                                         *)
(* Byte strings are sequences of one-character strings, so the substring   *)
(* tests and rewrites of the vectors are computed as Python computes them. *)
(***************************************************************************)
EXTENDS Naturals, Sequences, FiniteSets, TLC

(***************************************************************************)
(* Python str operations used by the source.                               *)
(***************************************************************************)
None == "None"

UPPER == <<"A","B","C","D","E","F","G","H","I","J","K","L","M",
           "N","O","P","Q","R","S","T","U","V","W","X","Y","Z">>
LOWER == <<"a","b","c","d","e","f","g","h","i","j","k","l","m",
           "n","o","p","q","r","s","t","u","v","w","x","y","z">>

lowerch(c) ==
    IF \E i \in 1..26 : UPPER[i] = c
    THEN LOWER[CHOOSE i \in 1..26 : UPPER[i] = c]
    ELSE c

\* str.lower()
lower(s) == [i \in 1..Len(s) |-> lowerch(s[i])]

\* sub in s
In(sub, s) ==
    \E i \in 0..(Len(s) - Len(sub)) : SubSeq(s, i + 1, i + Len(sub)) = sub

\* s.startswith(p)
startswith(s, p) == Len(p) <= Len(s) /\ SubSeq(s, 1, Len(p)) = p

\* s.endswith(p)
endswith(s, p) ==
    Len(p) <= Len(s) /\ SubSeq(s, Len(s) - Len(p) + 1, Len(s)) = p

WHITESPACE == {" ", "\t", "\n", "\r", "\f"}

\* s.strip()
strip(s) ==
    LET ns == {i \in 1..Len(s) : s[i] \notin WHITESPACE}
    IN  IF ns = {} THEN <<>>
        ELSE LET a == CHOOSE i \in ns : \A j \in ns : i <= j
                 b == CHOOSE i \in ns : \A j \in ns : j <= i
             IN  SubSeq(s, a, b)

\* s.find(sub, start) with 0-based positions; -1 is rendered as Len(s) + 1
find(s, sub, start) ==
    LET hits == {i \in start..(Len(s) - Len(sub)) :
                    SubSeq(s, i + 1, i + Len(sub)) = sub}
    IN  IF hits = {} THEN Len(s) + 1
        ELSE CHOOSE i \in hits : \A j \in hits : i <= j

\* s.split(sep) for a non-empty separator
RECURSIVE split(_, _)
split(s, sep) ==
    LET p == find(s, sep, 0)
    IN  IF p > Len(s) THEN <<s>>
        ELSE <<SubSeq(s, 1, p)>> \o split(SubSeq(s, p + Len(sep) + 1, Len(s)), sep)

\* s.split(sep, 1)[0]
split1head(s, sep) ==
    LET p == find(s, sep, 0)
    IN  IF p > Len(s) THEN s ELSE SubSeq(s, 1, p)

\* sep.join(parts)
RECURSIVE join(_, _)
join(sep, parts) ==
    IF Len(parts) = 0 THEN <<>>
    ELSE IF Len(parts) = 1 THEN parts[1]
    ELSE parts[1] \o sep \o join(sep, Tail(parts))

\* s.replace(old, new): every non-overlapping occurrence, left to right
RECURSIVE replace(_, _, _)
replace(s, old, new) ==
    LET p == find(s, old, 0)
    IN  IF p > Len(s) THEN s
        ELSE SubSeq(s, 1, p) \o new
             \o replace(SubSeq(s, p + Len(old) + 1, Len(s)), old, new)


(***************************************************************************)
(* What a mangler did: the value it returns (None suppresses forwarding),  *)
(* the socket operations it performed itself, in order, and the exception  *)
(* that ended it (None when it returned).  io holds what the blocking      *)
(* calls inside a mangler meet: resp is what session.outbound.recv()       *)
(* returns, hs_in and hs_out are the outcomes of the two TLS handshakes.   *)
(***************************************************************************)
op_sendall(leg, data) == [op |-> "sendall", leg |-> leg, data |-> data]
op_recv(leg, data) == [op |-> "recv", leg |-> leg, data |-> data]
op_wrap(leg, role) == [op |-> "wrap", leg |-> leg, data |-> <<role>>]
op_set_result == [op |-> "set_result", leg |-> None, data |-> <<"True">>]
op_close == [op |-> "close", leg |-> None, data |-> <<>>]

\* A returned None, as a value comparable with byte strings (whose elements
\* are single characters).
NoData == <<None>>

returns(data) == [data |-> data, ops |-> <<>>, exc |-> None]
raises(e) == [data |-> NoData, ops |-> <<>>, exc |-> e]
\* rewrite.set_result(session, True); return data
set_result_return(data) == [data |-> data, ops |-> <<op_set_result>>, exc |-> None]
\* a faulty injection, which lacks data=None and returns the response
inject_return_response(resp) ==
    [data |-> resp, ops |-> <<op_sendall("inbound", resp)>>, exc |-> None]

\* session.inbound.sendall(resp); data=None; return data
inject_return(resp) ==
    [data |-> NoData, ops |-> <<op_sendall("inbound", resp)>>, exc |-> None]

CRLF == <<"\r","\n">>
LF == <<"\n">>
STARTTLS == <<"S","T","A","R","T","T","L","S">>
SP_STARTTLS == <<" ","S","T","A","R","T","T","L","S">>
mail_from == <<"m","a","i","l"," ","f","r","o","m">>

(***************************************************************************)
(* The body shared by every UntrustedIntercept.mangle_client_data: answer  *)
(* the client, wrap the inbound socket as TLS server, send the chunk       *)
(* upstream, read the response, check it, wrap the outbound socket.        *)
(* resp_ok is the vector's test of io.resp.                                *)
(***************************************************************************)
\* a faulty intercept, which sends the chunk upstream before the inbound
\* handshake
untrusted_intercept_forward_first(data, answer, resp_ok, io) ==
    LET s1 == <<op_sendall("inbound", answer), op_sendall("outbound", data)>>
        s3 == s1 \o <<op_wrap("inbound", "server"), op_recv("outbound", io.resp)>>
    IN  IF io.hs_in # "ok"
        THEN [data |-> NoData, ops |-> s1, exc |-> "SSLError"]
        ELSE IF ~resp_ok
        THEN [data |-> NoData, ops |-> s3, exc |-> "ProtocolViolationException"]
        ELSE IF io.hs_out = "eof"
        THEN [data |-> NoData, ops |-> s3, exc |-> "SSLEOFError"]
        ELSE IF io.hs_out # "ok"
        THEN [data |-> NoData, ops |-> s3, exc |-> "SSLError"]
        ELSE [data |-> NoData, ops |-> s3 \o <<op_wrap("outbound", "client")>>,
              exc |-> None]

\* a faulty intercept, which lacks data=None and returns the chunk
untrusted_intercept_returning_data(data, answer, resp_ok, io) ==
    LET s1 == <<op_sendall("inbound", answer)>>
        s3 == s1 \o <<op_wrap("inbound", "server"), op_sendall("outbound", data),
                      op_recv("outbound", io.resp)>>
    IN  IF io.hs_in # "ok"
        THEN [data |-> NoData, ops |-> s1, exc |-> "SSLError"]
        ELSE IF ~resp_ok
        THEN [data |-> NoData, ops |-> s3, exc |-> "ProtocolViolationException"]
        ELSE IF io.hs_out = "eof"
        THEN [data |-> NoData, ops |-> s3, exc |-> "SSLEOFError"]
        ELSE IF io.hs_out # "ok"
        THEN [data |-> NoData, ops |-> s3, exc |-> "SSLError"]
        ELSE [data |-> data, ops |-> s3 \o <<op_wrap("outbound", "client")>>,
              exc |-> None]

\* a faulty intercept, which does not check the response of the server
untrusted_intercept_unchecked(data, answer, resp_ok, io) ==
    LET s1 == <<op_sendall("inbound", answer)>>
        s3 == s1 \o <<op_wrap("inbound", "server"), op_sendall("outbound", data),
                      op_recv("outbound", io.resp)>>
    IN  IF io.hs_in # "ok"
        THEN [data |-> NoData, ops |-> s1, exc |-> "SSLError"]
        ELSE IF io.hs_out = "eof"
        THEN [data |-> NoData, ops |-> s3, exc |-> "SSLEOFError"]
        ELSE IF io.hs_out # "ok"
        THEN [data |-> NoData, ops |-> s3, exc |-> "SSLError"]
        ELSE [data |-> NoData, ops |-> s3 \o <<op_wrap("outbound", "client")>>,
              exc |-> None]

\* a faulty intercept, which returns to the main loop once the chunk is
\* sent upstream and leaves the response of the server to a later round
untrusted_intercept_returning_early(data, answer, resp_ok, io) ==
    LET s1 == <<op_sendall("inbound", answer)>>
        s2 == s1 \o <<op_wrap("inbound", "server")>>
    IN  IF io.hs_in # "ok"
        THEN [data |-> NoData, ops |-> s1, exc |-> "SSLError"]
        ELSE [data |-> NoData, ops |-> s2 \o <<op_sendall("outbound", data)>>,
              exc |-> None]

\* a faulty intercept, which passes the response of the server on to the
\* client
untrusted_intercept_relaying(data, answer, resp_ok, io) ==
    LET s1 == <<op_sendall("inbound", answer)>>
        s2 == s1 \o <<op_wrap("inbound", "server")>>
        s3 == s2 \o <<op_sendall("outbound", data), op_recv("outbound", io.resp),
                      op_sendall("inbound", io.resp)>>
    IN  IF io.hs_in # "ok"
        THEN [data |-> NoData, ops |-> s1, exc |-> "SSLError"]
        ELSE IF ~resp_ok
        THEN [data |-> NoData, ops |-> s3, exc |-> "ProtocolViolationException"]
        ELSE IF io.hs_out = "eof"
        THEN [data |-> NoData, ops |-> s3, exc |-> "SSLEOFError"]
        ELSE IF io.hs_out # "ok"
        THEN [data |-> NoData, ops |-> s3, exc |-> "SSLError"]
        ELSE [data |-> NoData, ops |-> s3 \o <<op_wrap("outbound", "client")>>,
              exc |-> None]

untrusted_intercept(data, answer, resp_ok, io) ==
    LET s1 == <<op_sendall("inbound", answer)>>
        s2 == s1 \o <<op_wrap("inbound", "server")>>
        s3 == s2 \o <<op_sendall("outbound", data), op_recv("outbound", io.resp)>>
    IN  IF io.hs_in # "ok"
        THEN [data |-> NoData, ops |-> s1, exc |-> "SSLError"]
        ELSE IF ~resp_ok
        THEN [data |-> NoData, ops |-> s3, exc |-> "ProtocolViolationException"]
        ELSE IF io.hs_out = "eof"
        THEN [data |-> NoData, ops |-> s3, exc |-> "SSLEOFError"]
        ELSE IF io.hs_out # "ok"
        THEN [data |-> NoData, ops |-> s3, exc |-> "SSLError"]
        ELSE [data |-> NoData, ops |-> s3 \o <<op_wrap("outbound", "client")>>,
              exc |-> None]

(***************************************************************************)
(* Vectors.SMTP                                                            *)
(***************************************************************************)
\* any(e in session.outbound.sndbuf.lower() for e in ('ehlo','helo')) and "250" in data
SMTP_after_ehlo(session, data) ==
    /\ \/ In(<<"e","h","l","o">>, lower(session.outbound.sndbuf))
       \/ In(<<"h","e","l","o">>, lower(session.outbound.sndbuf))
    /\ In(<<"2","5","0">>, data)

no_STARTTLS(f) == ~In(STARTTLS, f)

SMTP_StripFromCapabilities_mangle_server_data(session, data) ==
    IF SMTP_after_ehlo(session, data)
    THEN LET features == SelectSeq(split(strip(data), CRLF), no_STARTTLS)
             n == Len(features)
         IN  IF n = 0 THEN raises("IndexError")
             ELSE LET last == IF ~startswith(features[n], <<"2","5","0"," ">>)
                              THEN replace(features[n], <<"2","5","0","-">>, <<"2","5","0"," ">>)
                              ELSE features[n]
                  IN  returns(join(CRLF, [features EXCEPT ![n] = last]) \o CRLF)
    ELSE returns(data)

\* a faulty mangle_client_data, which tests the sentinel before the command
SMTP_StripFromCapabilities_sentinel_first(session, data) ==
    IF In(mail_from, lower(data)) THEN set_result_return(data)
    ELSE IF In(STARTTLS, data) THEN raises("ProtocolViolationException")
    ELSE returns(data)

\* mangle_client_data of StripFromCapabilities and ProtocolDowngradeToV2
SMTP_StripFromCapabilities_mangle_client_data(session, data) ==
    IF In(STARTTLS, data) THEN raises("ProtocolViolationException")
    ELSE IF In(mail_from, lower(data)) THEN set_result_return(data)
    ELSE returns(data)

SMTP_ProtocolDowngradeToV2_mangle_server_data(session, data) ==
    IF In(lower(<<"I","M","A","P","4">>), lower(data)) /\ In(lower(<<"*"," ","O","K"," ">>), lower(data))
    THEN inject_return(<<"O","K"," ","I","M","A","P","2"," ","S","e","r","v","e","r"," ","R","e","a","d","y","\r","\n">>)
    ELSE returns(data)

SMTP_StripWithInvalidResponseCode_mangle_server_data(session, data) ==
    IF SMTP_after_ehlo(session, data)
    THEN LET features == split(strip(data), CRLF)
             n == Len(features)
             \* features.insert(-1, "250-STARTTLS")
             inserted == SubSeq(features, 1, n - 1) \o <<<<"2","5","0","-","S","T","A","R","T","T","L","S">>>>
                         \o SubSeq(features, n, n)
         IN  returns(join(CRLF, inserted) \o CRLF)
    ELSE returns(data)

\* if "STARTTLS" in data: inject; data=None / elif "mail from" in data.lower()
SMTP_refuse(data, resp) ==
    IF In(STARTTLS, data) THEN inject_return(resp)
    ELSE IF In(mail_from, lower(data)) THEN set_result_return(data)
    ELSE returns(data)

SMTP_StripWithInvalidResponseCode_mangle_client_data(session, data) ==
    SMTP_refuse(data, <<"2","0","0"," ","S","T","R","I","P","T","L","S","\r","\n">>)

SMTP_StripWithTemporaryError_mangle_client_data(session, data) ==
    SMTP_refuse(data, <<"4","5","4"," ","T","L","S"," ","n","o","t"," ","a","v","a","i","l","a","b","l","e"," ","d","u","e"," ","t","o"," ","t","e","m","p","o","r","a","r","y"," ","r","e","a","s","o","n","\r","\n">>)

SMTP_StripWithError_mangle_client_data(session, data) ==
    SMTP_refuse(data, <<"5","0","1"," ","S","y","n","t","a","x"," ","e","r","r","o","r","\r","\n">>)

SMTP_UntrustedIntercept_mangle_client_data(session, data, io) ==
    IF In(STARTTLS, data)
    THEN untrusted_intercept(data, <<"2","2","0"," ","G","o"," ","a","h","e","a","d","\r","\n">>, In(<<"2","2","0">>, io.resp), io)
    ELSE IF In(mail_from, lower(data)) THEN set_result_return(data)
    ELSE returns(data)

SMTP_ProtocolDowngradeStripExtendedMode_mangle_client_data(session, data) ==
    IF startswith(lower(data), <<"e","h","l","o"," ">>)
    THEN inject_return(<<"5","0","2"," ","E","r","r","o","r",":"," ","c","o","m","m","a","n","d"," ","\"","E","H","L","O","\""," ","n","o","t"," ","i","m","p","l","e","m","e","n","t","e","d","\r","\n">>)
    ELSE IF In(mail_from, lower(data)) THEN set_result_return(data)
    ELSE returns(data)

\* data += "INJECTED_INVALID_COMMAND\r\n"; the intercept's return value is
\* dropped and the lengthened chunk is returned; an SSLEOFError from the
\* outbound handshake is caught and answered with session.close().
SMTP_InjectCommand_mangle_client_data(session, data, io) ==
    IF In(STARTTLS, data)
    THEN LET injected == data \o <<"I","N","J","E","C","T","E","D","_","I","N","V","A","L","I","D","_","C","O","M","M","A","N","D","\r","\n">>
             r == SMTP_UntrustedIntercept_mangle_client_data(session, injected, io)
         IN  IF r.exc = "SSLEOFError"
             THEN [data |-> NoData, ops |-> r.ops \o <<op_close>>,
                   exc |-> "SessionTerminatedException"]
             ELSE IF r.exc # None THEN r
             ELSE [data |-> injected, ops |-> r.ops, exc |-> None]
    ELSE IF In(mail_from, lower(data)) THEN set_result_return(data)
    ELSE returns(data)

(***************************************************************************)
(* Vectors.POP3                                                            *)
(***************************************************************************)
stls == <<"s","t","l","s">>

no_stls(f) == ~In(stls, lower(f))

\* any(c in data.lower() for c in ('list','user ','pass '))
POP3_sentinel(data) ==
    \/ In(<<"l","i","s","t">>, lower(data))
    \/ In(<<"u","s","e","r"," ">>, lower(data))
    \/ In(<<"p","a","s","s"," ">>, lower(data))

POP3_StripFromCapabilities_mangle_server_data(session, data) ==
    IF startswith(lower(data), <<"+","o","k"," ","c","a","p","a","b","i","l","i","t","y">>)
    THEN LET features == SelectSeq(split(strip(data), CRLF), no_stls)
         IN  returns(join(CRLF, features) \o CRLF)
    ELSE returns(data)

POP3_StripFromCapabilities_mangle_client_data(session, data) ==
    IF startswith(lower(data), stls) THEN raises("ProtocolViolationException")
    ELSE IF POP3_sentinel(data) THEN set_result_return(data)
    ELSE returns(data)

POP3_StripWithError_mangle_client_data(session, data) ==
    IF stls = lower(strip(data)) THEN inject_return(<<"-","E","R","R"," ","u","n","k","n","o","w","n"," ","c","o","m","m","a","n","d","\r","\n">>)
    ELSE IF POP3_sentinel(data) THEN set_result_return(data)
    ELSE returns(data)

POP3_UntrustedIntercept_mangle_client_data(session, data, io) ==
    IF stls = lower(strip(data))
    THEN untrusted_intercept(data, <<"+","O","K"," ","B","e","g","i","n"," ","T","L","S"," ","n","e","g","o","t","i","a","t","i","o","n","\r","\n">>,
                             In(<<"+","O","K">>, io.resp), io)
    ELSE IF POP3_sentinel(data) THEN set_result_return(data)
    ELSE returns(data)

(***************************************************************************)
(* Vectors.IMAP                                                            *)
(***************************************************************************)
SP_LOGIN_SP == <<" ","L","O","G","I","N"," ">>

\* id = data.split(' ',1)[0].strip()
tag_of(data) == strip(split1head(data, <<" ">>))

IMAP_StripFromCapabilities_mangle_server_data(session, data) ==
    IF In(<<"C","A","P","A","B","I","L","I","T","Y"," ">>, data)
    THEN returns(replace(replace(data, SP_STARTTLS, <<>>), <<" ","L","O","G","I","N","D","I","S","A","B","L","E","D">>, <<>>))
    ELSE returns(data)

IMAP_StripFromCapabilities_mangle_client_data(session, data) ==
    IF In(SP_STARTTLS, data) THEN raises("ProtocolViolationException")
    ELSE IF In(SP_LOGIN_SP, data) THEN set_result_return(data)
    ELSE returns(data)

IMAP_StripWithError_mangle_client_data(session, data) ==
    IF endswith(lower(strip(data)), <<"s","t","a","r","t","t","l","s">>)
    THEN inject_return(tag_of(data) \o <<" ","B","A","D"," ","u","n","k","n","o","w","n"," ","c","o","m","m","a","n","d","\r","\n">>)
    ELSE IF In(SP_LOGIN_SP, data) THEN set_result_return(data)
    ELSE returns(data)

IMAP_UntrustedIntercept_mangle_client_data(session, data, io) ==
    IF endswith(lower(strip(data)), <<"s","t","a","r","t","t","l","s">>)
    THEN untrusted_intercept(data,
                             tag_of(data) \o <<" ","O","K"," ","B","e","g","i","n"," ","T","L","S"," ","n","e","g","o","t","a","t","i","o","n"," ","n","o","w","\r","\n">>,
                             In(tag_of(data) \o <<" ","O","K">>, io.resp), io)
    ELSE IF In(SP_LOGIN_SP, data) THEN set_result_return(data)
    ELSE returns(data)

(***************************************************************************)
(* Vectors.FTP                                                             *)
(***************************************************************************)
AUTH_TLS == <<"A","U","T","H"," ","T","L","S">>
USER_SP == <<"U","S","E","R"," ">>

no_AUTH_TLS(f) == ~In(AUTH_TLS, f)

FTP_StripFromCapabilities_mangle_server_data(session, data) ==
    IF lower(strip(session.outbound.sndbuf)) = <<"f","e","a","t">> /\ In(AUTH_TLS, data)
    THEN LET features == SelectSeq(split(strip(data), LF), no_AUTH_TLS)
         IN  returns(join(LF, features) \o CRLF)
    ELSE returns(data)

FTP_StripFromCapabilities_mangle_client_data(session, data) ==
    IF In(AUTH_TLS, data) THEN raises("ProtocolViolationException")
    ELSE IF In(USER_SP, data) THEN set_result_return(data)
    ELSE returns(data)

FTP_StripWithError_mangle_client_data(session, data) ==
    IF In(AUTH_TLS, data) THEN inject_return(<<"5","0","0"," ","A","U","T","H"," ","T","L","S"," ","n","o","t"," ","u","n","d","e","r","s","t","o","o","d","\r","\n">>)
    ELSE IF In(USER_SP, data) THEN set_result_return(data)
    ELSE returns(data)

FTP_UntrustedIntercept_mangle_client_data(session, data, io) ==
    IF In(AUTH_TLS, data)
    THEN untrusted_intercept(data, <<"2","3","4"," ","O","K"," ","B","e","g","i","n"," ","T","L","S"," ","n","e","g","o","t","a","t","i","o","n"," ","n","o","w","\r","\n">>,
                             startswith(io.resp, <<"2","3","4">>), io)
    ELSE IF In(USER_SP, data) THEN set_result_return(data)
    ELSE returns(data)

(***************************************************************************)
(* Vectors.NNTP                                                            *)
(***************************************************************************)
GROUP_SP == <<"G","R","O","U","P"," ">>

NNTP_StripFromCapabilities_mangle_server_data(session, data) ==
    IF lower(strip(session.outbound.sndbuf)) = <<"c","a","p","a","b","i","l","i","t","i","e","s">> /\ In(STARTTLS, data)
    THEN LET features == SelectSeq(split(strip(data), LF), no_STARTTLS)
         IN  returns(join(LF, features) \o CRLF)
    ELSE returns(data)

NNTP_StripFromCapabilities_mangle_client_data(session, data) ==
    IF In(STARTTLS, data) THEN raises("ProtocolViolationException")
    ELSE IF In(GROUP_SP, data) THEN set_result_return(data)
    ELSE returns(data)

NNTP_StripWithError_mangle_client_data(session, data) ==
    IF In(STARTTLS, data) THEN inject_return(<<"5","0","2"," ","C","o","m","m","a","n","d"," ","u","n","a","v","a","i","l","a","b","l","e","\r","\n">>)
    ELSE IF In(GROUP_SP, data) THEN set_result_return(data)
    ELSE returns(data)

NNTP_UntrustedIntercept_mangle_client_data(session, data, io) ==
    IF In(STARTTLS, data)
    THEN untrusted_intercept(data, <<"3","8","2"," ","C","o","n","t","i","n","u","e"," ","w","i","t","h"," ","T","L","S"," ","n","e","g","o","t","i","a","t","i","o","n","\r","\n">>,
                             startswith(io.resp, <<"3","8","2">>), io)
    ELSE IF In(GROUP_SP, data) THEN set_result_return(data)
    ELSE returns(data)

(***************************************************************************)
(* Vectors.XMPP                                                            *)
(***************************************************************************)
starttls_open == <<"<","s","t","a","r","t","t","l","s">>
starttls_close == <<"<","/","s","t","a","r","t","t","l","s",">">>
starttls_request == <<"<","s","t","a","r","t","t","l","s"," ","x","m","l","n","s","=","'","u","r","n",":","i","e","t","f",":","p","a","r","a","m","s",":","x","m","l",":","n","s",":","x","m","p","p","-","t","l","s","'","/",">">>
proceed_SP == <<"<","p","r","o","c","e","e","d"," ">>

\* any(c in data.lower() for c in ("</auth>","<query","<iq","<username"))
XMPP_sentinel(data) ==
    \/ In(<<"<","/","a","u","t","h",">">>, lower(data))
    \/ In(<<"<","q","u","e","r","y">>, lower(data))
    \/ In(<<"<","i","q">>, lower(data))
    \/ In(<<"<","u","s","e","r","n","a","m","e">>, lower(data))

\* start = data.index("<starttls")
\* end = data.index("</starttls>",start)+len("</starttls>")
\* as 0-based offsets; end is past Len(data) when index raises ValueError
XMPP_starttls_start(data) == find(data, starttls_open, 0)
XMPP_starttls_end(data) ==
    find(data, starttls_close, XMPP_starttls_start(data)) + Len(starttls_close)

XMPP_StripFromCapabilities_mangle_server_data(session, data) ==
    IF In(starttls_open, data)
    THEN LET start == XMPP_starttls_start(data)
             end == XMPP_starttls_end(data)
         IN  IF end > Len(data) THEN raises("ValueError")
             ELSE returns(SubSeq(data, 1, start) \o SubSeq(data, end + 1, Len(data)))
    ELSE returns(data)

\* mangle_client_data of StripFromCapabilities and StripInboundTLS
XMPP_StripFromCapabilities_mangle_client_data(session, data) ==
    IF In(starttls_open, data) THEN raises("ProtocolViolationException")
    ELSE IF XMPP_sentinel(data) THEN set_result_return(data)
    ELSE returns(data)

XMPP_StripInboundTLS_mangle_server_data(session, data, io) ==
    IF In(starttls_open, data)
    THEN LET start == XMPP_starttls_start(data)
             end == XMPP_starttls_end(data)
             starttls_args == SubSeq(data, start + 1, end)
             stripped == SubSeq(data, 1, start) \o SubSeq(data, end + 1, Len(data))
             sent == <<op_sendall("outbound", starttls_request),
                       op_recv("outbound", io.resp)>>
         IN  IF end > Len(data) THEN raises("ValueError")
             ELSE IF ~In(<<"r","e","q","u","i","r","e","d">>, starttls_args) THEN returns(stripped)
             ELSE IF ~startswith(io.resp, proceed_SP)
             THEN [data |-> NoData, ops |-> sent,
                   exc |-> "ProtocolViolationException"]
             ELSE IF io.hs_out # "ok"
             THEN [data |-> NoData, ops |-> sent, exc |-> "SSLError"]
             ELSE [data |-> stripped,
                   ops |-> sent \o <<op_wrap("outbound", "client")>>,
                   exc |-> None]
    ELSE returns(data)

XMPP_UntrustedIntercept_mangle_client_data(session, data, io) ==
    IF In(<<"<","s","t","a","r","t","t","l","s"," ">>, data)
    THEN untrusted_intercept(data,
                             <<"<","p","r","o","c","e","e","d"," ","x","m","l","n","s","=","'","u","r","n",":","i","e","t","f",":","p","a","r","a","m","s",":","x","m","l",":","n","s",":","x","m","p","p","-","t","l","s","'","/",">">>,
                             startswith(io.resp, proceed_SP), io)
    ELSE IF In(<<"<","/","a","u","t","h",">">>, data) THEN set_result_return(data)
    ELSE returns(data)

(***************************************************************************)
(* Vectors.ACAP                                                            *)
(***************************************************************************)
SP_AUTHENTICATE_SP == <<" ","A","U","T","H","E","N","T","I","C","A","T","E"," ">>

\* _REX_CAP.findall(data) with _REX_CAP = re.compile(r"\(([^\)]+)\)")
RECURSIVE REX_CAP_findall(_)
REX_CAP_findall(s) ==
    LET p == find(s, <<"(">>, 0)
        q == find(s, <<")">>, p + 1)
    IN  IF p > Len(s) \/ q > Len(s) THEN <<>>
        ELSE IF q = p + 1 THEN REX_CAP_findall(SubSeq(s, p + 2, Len(s)))
        ELSE <<SubSeq(s, p + 2, q)>> \o REX_CAP_findall(SubSeq(s, q + 2, Len(s)))

\* "(%s)"%f for each f
parenthesised(features) == [i \in 1..Len(features) |-> <<"(">> \o features[i] \o <<")">>]

ACAP_StripFromCapabilities_mangle_server_data(session, data) ==
    IF In(<<"A","C","A","P">>, data) /\ In(STARTTLS, data)
    THEN LET features == REX_CAP_findall(data)
         IN  returns(join(<<" ">>, parenthesised(SelectSeq(features, no_STARTTLS))))
    ELSE returns(data)

ACAP_StripFromCapabilities_mangle_client_data(session, data) ==
    IF In(SP_STARTTLS, data) THEN raises("ProtocolViolationException")
    ELSE IF In(SP_AUTHENTICATE_SP, data) THEN set_result_return(data)
    ELSE returns(data)

ACAP_StripWithError_mangle_client_data(session, data) ==
    IF In(SP_STARTTLS, data)
    THEN inject_return(tag_of(data) \o <<" ","B","A","D"," ","\"","c","o","m","m","a","n","d"," ","u","n","k","n","o","w","n"," ","o","r"," ","a","r","g","u","m","e","n","t","s"," ","i","n","v","a","l","i","d","\"">>)
    ELSE IF In(SP_AUTHENTICATE_SP, data) THEN set_result_return(data)
    ELSE returns(data)

ACAP_UntrustedIntercept_mangle_client_data(session, data, io) ==
    IF In(SP_STARTTLS, data)
    THEN untrusted_intercept(data,
                             tag_of(data) \o <<" ","O","K"," ","\"","B","e","g","i","n"," ","T","L","S"," ","n","e","g","o","t","i","a","t","i","o","n"," ","n","o","w","\"">>,
                             In(<<" ","O","K"," ">>, io.resp), io)
    ELSE IF In(SP_AUTHENTICATE_SP, data) THEN set_result_return(data)
    ELSE returns(data)

(***************************************************************************)
(* Vectors.IRC                                                             *)
(***************************************************************************)
\* any(kw.lower() in data.lower() for kw in ('authenticate ','privmsg ', 'protoctl '))
IRC_sentinel(data) ==
    \/ In(<<"a","u","t","h","e","n","t","i","c","a","t","e"," ">>, lower(data))
    \/ In(<<"p","r","i","v","m","s","g"," ">>, lower(data))
    \/ In(<<"p","r","o","t","o","c","t","l"," ">>, lower(data))

\* The first branch builds the rewritten lines into the local name data; the
\* function then ends with a bare return, so None is what every path returns.
IRC_StripFromCapabilities_mangle_server_data(session, data) ==
    IF In(<<" ","c","a","p"," ">>, lower(data)) /\ In(<<" ","t","l","s">>, lower(data)) THEN returns(NoData)
    ELSE IF IRC_sentinel(data) THEN set_result_return(NoData)
    ELSE returns(NoData)

IRC_StripFromCapabilities_mangle_client_data(session, data) ==
    IF In(STARTTLS, data) THEN raises("ProtocolViolationException")
    ELSE IF IRC_sentinel(data) THEN set_result_return(data)
    ELSE returns(data)

\* mangle_server_data of StripWithError, StripWithNotRegistered,
\* StripCAPWithNotRegistered and StripWithSilentDrop
IRC_StripWithError_mangle_server_data(session, data) ==
    IF IRC_sentinel(data) THEN set_result_return(data) ELSE returns(data)

IRC_UntrustedIntercept_mangle_server_data(session, data) ==
    IF In(<<" ","i","d","e","n","t"," ">>, lower(data)) THEN returns(data)
    ELSE IF IRC_sentinel(data) THEN set_result_return(data)
    ELSE returns(data)

\* params['srv'], params['nickname'] from session.outbound.recvbuf
IRC_fields(session) == split(strip(session.outbound.recvbuf), <<" ">>)
IRC_srv(session) ==
    IF strip(session.outbound.recvbuf) # <<>> THEN IRC_fields(session)[1]
    ELSE <<"t","h","i","s",".","s","e","r","v","e","r",".","c","o","m">>
IRC_nickname(session) ==
    IF strip(session.outbound.recvbuf) # <<>> /\ Len(IRC_fields(session)) >= 3
    THEN IRC_fields(session)[3]
    ELSE <<"*">>

\* "%(srv)s <code> %(nickname)s :%(cmd)s\r\n"%params
IRC_reply(session, code, cmd) ==
    IRC_srv(session) \o <<" ">> \o code \o <<" ">> \o IRC_nickname(session)
    \o <<" ",":">> \o cmd \o CRLF

IRC_StripWithError_mangle_client_data(session, data) ==
    IF In(STARTTLS, data) THEN inject_return(IRC_reply(session, <<"6","9","1">>, STARTTLS))
    ELSE IF IRC_sentinel(data) THEN set_result_return(data)
    ELSE returns(data)

IRC_StripWithNotRegistered_mangle_client_data(session, data) ==
    IF In(STARTTLS, data)
    THEN inject_return(IRC_reply(session, <<"4","5","1">>, <<"Y","o","u"," ","h","a","v","e"," ","n","o","t"," ","r","e","g","i","s","t","e","r","e","d">>))
    ELSE IF IRC_sentinel(data) THEN set_result_return(data)
    ELSE returns(data)

IRC_StripCAPWithNotRegistered_mangle_client_data(session, data) ==
    IF In(<<"C","A","P"," ","L","S">>, data)
    THEN inject_return(IRC_reply(session, <<"4","5","1">>, <<"Y","o","u"," ","h","a","v","e"," ","n","o","t"," ","r","e","g","i","s","t","e","r","e","d">>))
    ELSE IF IRC_sentinel(data) THEN set_result_return(data)
    ELSE returns(data)

IRC_StripWithSilentDrop_mangle_client_data(session, data) ==
    IF In(STARTTLS, data) THEN returns(NoData)
    ELSE IF IRC_sentinel(data) THEN set_result_return(data)
    ELSE returns(data)

IRC_UntrustedIntercept_mangle_client_data(session, data, io) ==
    IF In(STARTTLS, data)
    THEN untrusted_intercept(data,
             <<":">> \o IRC_reply(session, <<"6","7","0">>,
                               <<"S","T","A","R","T","T","L","S"," ","s","u","c","c","e","s","s","f","u","l",","," ","g","o"," ","a","h","e","a","d"," ","w","i","t","h"," ","T","L","S"," ","h","a","n","d","s","h","a","k","e">>),
             In(<<" ","6","7","0"," ">>, io.resp), io)
    ELSE IF IRC_sentinel(data) THEN set_result_return(data)
    ELSE returns(data)

(***************************************************************************)
(* The catalogue: the classes of Vectors, named as the --vectors option    *)
(* names them, with the _PROTO_ID of their protocol class.                 *)
(***************************************************************************)
PROTO_SMTP == 25
PROTO_XMPP == 5222
PROTO_IMAP == 143
PROTO_FTP == 21
PROTO_POP3 == 110
PROTO_NNTP == 119
PROTO_IRC == 6667
PROTO_ACAP == 675
\* protocol_id = None (false in a condition, like no other protocol id)
PROTO_None == 0

SMTP_vectors ==
    {"SMTP.StripFromCapabilities", "SMTP.ProtocolDowngradeToV2",
     "SMTP.StripWithInvalidResponseCode", "SMTP.StripWithTemporaryError",
     "SMTP.StripWithError", "SMTP.UntrustedIntercept",
     "SMTP.ProtocolDowngradeStripExtendedMode", "SMTP.InjectCommand"}
POP3_vectors ==
    {"POP3.StripFromCapabilities", "POP3.StripWithError", "POP3.UntrustedIntercept"}
IMAP_vectors ==
    {"IMAP.StripFromCapabilities", "IMAP.StripWithError", "IMAP.UntrustedIntercept"}
FTP_vectors ==
    {"FTP.StripFromCapabilities", "FTP.StripWithError", "FTP.UntrustedIntercept"}
NNTP_vectors ==
    {"NNTP.StripFromCapabilities", "NNTP.StripWithError", "NNTP.UntrustedIntercept"}
XMPP_vectors ==
    {"XMPP.StripFromCapabilities", "XMPP.StripInboundTLS", "XMPP.UntrustedIntercept"}
ACAP_vectors ==
    {"ACAP.StripFromCapabilities", "ACAP.StripWithError", "ACAP.UntrustedIntercept"}
IRC_vectors ==
    {"IRC.StripFromCapabilities", "IRC.StripWithError", "IRC.StripWithNotRegistered",
     "IRC.StripCAPWithNotRegistered", "IRC.StripWithSilentDrop",
     "IRC.UntrustedIntercept"}

all_vectors ==
    SMTP_vectors \cup POP3_vectors \cup IMAP_vectors \cup FTP_vectors
    \cup NNTP_vectors \cup XMPP_vectors \cup ACAP_vectors \cup IRC_vectors

\* cls_proto._PROTO_ID of the class a vector belongs to
PROTO_ID(v) ==
    IF v \in SMTP_vectors THEN PROTO_SMTP
    ELSE IF v \in POP3_vectors THEN PROTO_POP3
    ELSE IF v \in IMAP_vectors THEN PROTO_IMAP
    ELSE IF v \in FTP_vectors THEN PROTO_FTP
    ELSE IF v \in NNTP_vectors THEN PROTO_NNTP
    ELSE IF v \in XMPP_vectors THEN PROTO_XMPP
    ELSE IF v \in ACAP_vectors THEN PROTO_ACAP
    ELSE PROTO_IRC

\* <vector>.mangle_client_data(session, data, rewrite)
vector_mangle_client_data(v, session, data, io) ==
    CASE v \in {"SMTP.StripFromCapabilities", "SMTP.ProtocolDowngradeToV2"} ->
            SMTP_StripFromCapabilities_mangle_client_data(session, data)
      [] v = "SMTP.StripWithInvalidResponseCode" ->
            SMTP_StripWithInvalidResponseCode_mangle_client_data(session, data)
      [] v = "SMTP.StripWithTemporaryError" ->
            SMTP_StripWithTemporaryError_mangle_client_data(session, data)
      [] v = "SMTP.StripWithError" ->
            SMTP_StripWithError_mangle_client_data(session, data)
      [] v = "SMTP.UntrustedIntercept" ->
            SMTP_UntrustedIntercept_mangle_client_data(session, data, io)
      [] v = "SMTP.ProtocolDowngradeStripExtendedMode" ->
            SMTP_ProtocolDowngradeStripExtendedMode_mangle_client_data(session, data)
      [] v = "SMTP.InjectCommand" ->
            SMTP_InjectCommand_mangle_client_data(session, data, io)
      [] v = "POP3.StripFromCapabilities" ->
            POP3_StripFromCapabilities_mangle_client_data(session, data)
      [] v = "POP3.StripWithError" ->
            POP3_StripWithError_mangle_client_data(session, data)
      [] v = "POP3.UntrustedIntercept" ->
            POP3_UntrustedIntercept_mangle_client_data(session, data, io)
      [] v = "IMAP.StripFromCapabilities" ->
            IMAP_StripFromCapabilities_mangle_client_data(session, data)
      [] v = "IMAP.StripWithError" ->
            IMAP_StripWithError_mangle_client_data(session, data)
      [] v = "IMAP.UntrustedIntercept" ->
            IMAP_UntrustedIntercept_mangle_client_data(session, data, io)
      [] v = "FTP.StripFromCapabilities" ->
            FTP_StripFromCapabilities_mangle_client_data(session, data)
      [] v = "FTP.StripWithError" ->
            FTP_StripWithError_mangle_client_data(session, data)
      [] v = "FTP.UntrustedIntercept" ->
            FTP_UntrustedIntercept_mangle_client_data(session, data, io)
      [] v = "NNTP.StripFromCapabilities" ->
            NNTP_StripFromCapabilities_mangle_client_data(session, data)
      [] v = "NNTP.StripWithError" ->
            NNTP_StripWithError_mangle_client_data(session, data)
      [] v = "NNTP.UntrustedIntercept" ->
            NNTP_UntrustedIntercept_mangle_client_data(session, data, io)
      [] v \in {"XMPP.StripFromCapabilities", "XMPP.StripInboundTLS"} ->
            XMPP_StripFromCapabilities_mangle_client_data(session, data)
      [] v = "XMPP.UntrustedIntercept" ->
            XMPP_UntrustedIntercept_mangle_client_data(session, data, io)
      [] v = "ACAP.StripFromCapabilities" ->
            ACAP_StripFromCapabilities_mangle_client_data(session, data)
      [] v = "ACAP.StripWithError" ->
            ACAP_StripWithError_mangle_client_data(session, data)
      [] v = "ACAP.UntrustedIntercept" ->
            ACAP_UntrustedIntercept_mangle_client_data(session, data, io)
      [] v = "IRC.StripFromCapabilities" ->
            IRC_StripFromCapabilities_mangle_client_data(session, data)
      [] v = "IRC.StripWithError" ->
            IRC_StripWithError_mangle_client_data(session, data)
      [] v = "IRC.StripWithNotRegistered" ->
            IRC_StripWithNotRegistered_mangle_client_data(session, data)
      [] v = "IRC.StripCAPWithNotRegistered" ->
            IRC_StripCAPWithNotRegistered_mangle_client_data(session, data)
      [] v = "IRC.StripWithSilentDrop" ->
            IRC_StripWithSilentDrop_mangle_client_data(session, data)
      [] v = "IRC.UntrustedIntercept" ->
            IRC_UntrustedIntercept_mangle_client_data(session, data, io)

\* <vector>.mangle_server_data(session, data, rewrite); the classes not
\* listed have the body "return data"
vector_mangle_server_data(v, session, data, io) ==
    CASE v = "SMTP.StripFromCapabilities" ->
            SMTP_StripFromCapabilities_mangle_server_data(session, data)
      [] v = "SMTP.ProtocolDowngradeToV2" ->
            SMTP_ProtocolDowngradeToV2_mangle_server_data(session, data)
      [] v = "SMTP.StripWithInvalidResponseCode" ->
            SMTP_StripWithInvalidResponseCode_mangle_server_data(session, data)
      [] v = "POP3.StripFromCapabilities" ->
            POP3_StripFromCapabilities_mangle_server_data(session, data)
      [] v = "IMAP.StripFromCapabilities" ->
            IMAP_StripFromCapabilities_mangle_server_data(session, data)
      [] v = "FTP.StripFromCapabilities" ->
            FTP_StripFromCapabilities_mangle_server_data(session, data)
      [] v = "NNTP.StripFromCapabilities" ->
            NNTP_StripFromCapabilities_mangle_server_data(session, data)
      [] v = "XMPP.StripFromCapabilities" ->
            XMPP_StripFromCapabilities_mangle_server_data(session, data)
      [] v = "XMPP.StripInboundTLS" ->
            XMPP_StripInboundTLS_mangle_server_data(session, data, io)
      [] v = "ACAP.StripFromCapabilities" ->
            ACAP_StripFromCapabilities_mangle_server_data(session, data)
      [] v = "IRC.StripFromCapabilities" ->
            IRC_StripFromCapabilities_mangle_server_data(session, data)
      [] v \in {"IRC.StripWithError", "IRC.StripWithNotRegistered",
                "IRC.StripCAPWithNotRegistered", "IRC.StripWithSilentDrop"} ->
            IRC_StripWithError_mangle_server_data(session, data)
      [] v = "IRC.UntrustedIntercept" ->
            IRC_UntrustedIntercept_mangle_server_data(session, data)
      [] OTHER -> returns(data)

(***************************************************************************)
(* Program state.                                                          *)
(***************************************************************************)
VARIABLES
    pc,                 \* "main": registering vectors; "main_loop"; "raised"
    todo,               \* options.vectors not yet passed to rewrite.add
    target,             \* ProxyServer.target, (host, port)
    setorder,           \* the iteration order of Python sets of vector classes
    vectors,            \* RewriteDispatcher.vectors: proto -> set of vectors
    results,            \* RewriteDispatcher.results
    session_to_mangle,  \* RewriteDispatcher.session_to_mangle
    objs,               \* the Session objects created so far, by identity 1, 2, ..
    input_list,         \* ProxyServer.input_list
    sessions,           \* ProxyServer.sessions: socket -> Session
    inputready,         \* sockets of the current select() round not yet handled
    raised,             \* the exception that left main_loop, or None
    wire,               \* per Session, one record per chunk handled by on_recv
    env                 \* the environment: options.vectors, the client
                        \* addresses, the chunks the peers send, and how
                        \* many connections and chunks they still produce

vars ==
    <<pc, todo, target, setorder, vectors, results, session_to_mangle, objs,
      input_list, sessions, inputready, raised, wire, env>>

\* ProxyServer.inbound, the listening socket; the sockets of Session i
listener == <<0, "listen">>
\* faulty sockets, which every Session shares with the first
sock_shared(i, leg) == <<1, leg>>
sock(i, leg) == <<i, leg>>
\* a faulty choice of s_out: the leg the chunk came from
same_leg(leg) == leg
other(leg) == IF leg = "inbound" THEN "outbound" ELSE "inbound"

(***************************************************************************)
(* TcpSockBuff                                                             *)
(***************************************************************************)
TcpSockBuff(peer) ==
    [peer |-> peer, socket_ssl |-> None, recvbuf |-> <<>>, sndbuf |-> <<>>,
     closed |-> FALSE]

\* a faulty TcpSockBuff: sndbuf collects everything sent
apply_op_accumulating(session, o) ==
    CASE o.op = "sendall" -> [session EXCEPT ![o.leg].sndbuf = @ \o o.data]
      [] o.op = "recv" -> [session EXCEPT ![o.leg].recvbuf = o.data]
      [] o.op = "wrap" -> [session EXCEPT ![o.leg].socket_ssl = o.data[1]]
      [] o.op = "close" ->
            [session EXCEPT !.inbound.closed = TRUE, !.outbound.closed = TRUE]
      [] OTHER -> session

\* the effect on the Session's two TcpSockBuff of one operation a mangler
\* performed: sendall sets sndbuf, recv sets recvbuf, ssl_wrap_socket* sets
\* socket_ssl, Session.close closes both sockets
apply_op(session, o) ==
    CASE o.op = "sendall" -> [session EXCEPT ![o.leg].sndbuf = o.data]
      [] o.op = "recv" -> [session EXCEPT ![o.leg].recvbuf = o.data]
      [] o.op = "wrap" -> [session EXCEPT ![o.leg].socket_ssl = o.data[1]]
      [] o.op = "close" ->
            [session EXCEPT !.inbound.closed = TRUE, !.outbound.closed = TRUE]
      [] OTHER -> session

RECURSIVE apply_ops(_, _)
apply_ops(session, ops) ==
    IF ops = <<>> THEN session
    ELSE apply_ops(apply_op(session, Head(ops)), Tail(ops))

(***************************************************************************)
(* ProtocolDetect                                                          *)
(***************************************************************************)
PORTMAP(port) ==
    CASE port = 25 -> PROTO_SMTP
      [] port = 5222 -> PROTO_XMPP
      [] port = 110 -> PROTO_POP3
      [] port = 143 -> PROTO_IMAP
      [] port = 21 -> PROTO_FTP
      [] port = 119 -> PROTO_NNTP
      [] port = 6667 -> PROTO_IRC
      [] port = 675 -> PROTO_ACAP
      [] OTHER -> PROTO_None

ProtocolDetect(tgt) == [protocol_id |-> PORTMAP(tgt[2]), history |-> <<>>]

\* a faulty KEYWORDS, tried in the opposite order
KEYWORDS_reversed(data) ==
    LET d == lower(data)
    IN  IF In(<<"a","u","t","h"," ","t","l","s">>, d) THEN PROTO_FTP
        ELSE IF In(<<"."," ","c","a","p","a","b","i","l","i","t","y">>, d) THEN PROTO_IMAP
        ELSE IF In(<<"x","m","p","p">>, d) THEN PROTO_XMPP
        ELSE IF \/ In(<<"e","h","l","o">>, d) \/ In(<<"h","e","l","o">>, d) \/ In(<<"s","t","a","r","t","t","l","s">>, d)
                \/ In(<<"r","c","p","t"," ","t","o",":">>, d) \/ In(<<"m","a","i","l"," ","f","r","o","m",":">>, d)
        THEN PROTO_SMTP
        ELSE PROTO_None

\* KEYWORDS, tried in this order
KEYWORDS(data) ==
    LET d == lower(data)
    IN  IF \/ In(<<"e","h","l","o">>, d) \/ In(<<"h","e","l","o">>, d) \/ In(<<"s","t","a","r","t","t","l","s">>, d)
           \/ In(<<"r","c","p","t"," ","t","o",":">>, d) \/ In(<<"m","a","i","l"," ","f","r","o","m",":">>, d)
        THEN PROTO_SMTP
        ELSE IF In(<<"x","m","p","p">>, d) THEN PROTO_XMPP
        ELSE IF In(<<"."," ","c","a","p","a","b","i","l","i","t","y">>, d) THEN PROTO_IMAP
        ELSE IF In(<<"a","u","t","h"," ","t","l","s">>, d) THEN PROTO_FTP
        ELSE PROTO_None

\* a faulty detect, without the short cut for a protocol already known
detect_again(protocol, data) ==
    [protocol_id |-> IF KEYWORDS(data) # PROTO_None THEN KEYWORDS(data)
                     ELSE protocol.protocol_id,
     history |-> Append(protocol.history, data)]

detect(protocol, data) ==
    IF protocol.protocol_id # PROTO_None THEN protocol
    ELSE [protocol_id |-> KEYWORDS(data), history |-> Append(protocol.history, data)]

(***************************************************************************)
(* Session                                                                 *)
(***************************************************************************)
\* Session(sock, target=self.target), then accept() and connect(target)
Session(addr, tgt) ==
    [inbound |-> TcpSockBuff(addr), outbound |-> TcpSockBuff(tgt),
     protocol |-> ProtocolDetect(tgt)]

(***************************************************************************)
(* RewriteDispatcher                                                       *)
(***************************************************************************)
\* list(s) of a Python set s of vector classes
list(s) == SelectSeq(setorder, LAMBDA v : v \in s)

\* a faulty index, which finds every element at the front
index_front(xs, x) == IF \E i \in 1..Len(xs) : xs[i] = x THEN 1 ELSE 0

\* xs.index(x), 1-based; 0 stands for the ValueError of a missing x
index(xs, x) ==
    IF \E i \in 1..Len(xs) : xs[i] = x
    THEN CHOOSE i \in 1..Len(xs) : xs[i] = x /\ \A j \in 1..(i - 1) : xs[j] # x
    ELSE 0

\* self.vectors.setdefault(proto,set([])); self.vectors[proto].add(attack)
add(vs, proto, attack) ==
    IF proto \in DOMAIN vs THEN [vs EXCEPT ![proto] = @ \cup {attack}]
    ELSE (proto :> {attack}) @@ vs

\* self.vectors.get(proto,[])
get_mangles(vs, proto) == IF proto \in DOMAIN vs THEN vs[proto] ELSE {}

\* get_result(session): the first record of the session, or None
get_result(rs, sid) ==
    IF \E i \in 1..Len(rs) : rs[i].session = sid
    THEN CHOOSE i \in 1..Len(rs) :
            rs[i].session = sid /\ \A j \in 1..(i - 1) : rs[j].session # sid
    ELSE 0

\* a faulty set_result, which takes the mark back when it is set again
set_result_toggling(rs, sid, value) ==
    LET i == IF \E k \in 1..Len(rs) : rs[k].session = sid
             THEN CHOOSE k \in 1..Len(rs) :
                     rs[k].session = sid /\ \A j \in 1..(k - 1) : rs[j].session # sid
             ELSE 0
    IN  [rs EXCEPT ![i].result = IF @ = value THEN "False" ELSE value]

\* a faulty set_result, which marks every record
set_result_of_all(rs, sid, value) ==
    [i \in 1..Len(rs) |-> [rs[i] EXCEPT !.result = value]]

\* r = self.get_result(session); r['result'] = value
set_result(rs, sid, value) ==
    [rs EXCEPT ![get_result(rs, sid)].result = value]

\* a faulty history, which keeps the records of every client
client_mangle_history_of_all(rs, client_ip) == rs

\* [r for r in self.get_results() if r['client']==client_ip]
client_mangle_history(rs, client_ip) ==
    SelectSeq(rs, LAMBDA r : r.client = client_ip)

(***************************************************************************)
(* Faulty variants of the dispatcher's selection, used below to show that  *)
(* the properties of the rotation depend on the code they are stated of.   *)
(***************************************************************************)
\* get_mangle without the lookup in session_to_mangle: every call selects anew
get_mangle_without_lookup(d, sid, session) ==
    LET client_ip == session.inbound.peer[1]
        history == client_mangle_history(d.results, client_ip)
        all_mangles == list(get_mangles(vectors, session.protocol.protocol_id))
        mangle == IF history = <<>> THEN all_mangles[1]
                  ELSE all_mangles[(index(all_mangles, history[Len(history)].mangle)
                                    % Len(all_mangles)) + 1]
    IN  IF all_mangles = <<>> THEN [mangle |-> None, d |-> d, exc |-> None]
        ELSE [mangle |-> mangle,
              d |-> [results |-> Append(d.results,
                                   [client |-> client_ip, session |-> sid,
                                    mangle |-> mangle, result |-> None]),
                     session_to_mangle |-> (sid :> mangle) @@ d.session_to_mangle],
              exc |-> None]

\* get_mangle that records the session also when no vector is registered
\* for its protocol
get_mangle_recording_none(d, sid, session) ==
    LET client_ip == session.inbound.peer[1]
        history == client_mangle_history(d.results, client_ip)
        all_mangles == list(get_mangles(vectors, session.protocol.protocol_id))
        mangle == IF all_mangles = <<>> THEN None
                  ELSE IF history = <<>> THEN all_mangles[1]
                  ELSE all_mangles[(index(all_mangles, history[Len(history)].mangle)
                                    % Len(all_mangles)) + 1]
    IN  IF sid \in DOMAIN d.session_to_mangle
        THEN [mangle |-> d.session_to_mangle[sid], d |-> d, exc |-> None]
        ELSE [mangle |-> mangle,
              d |-> [results |-> Append(d.results,
                                   [client |-> client_ip, session |-> sid,
                                    mangle |-> mangle, result |-> None]),
                     session_to_mangle |-> (sid :> mangle) @@ d.session_to_mangle],
              exc |-> None]

\* get_mangle that keeps the records in the order in which their sessions
\* were accepted
get_mangle_sorting_records(d, sid, session) ==
    LET client_ip == session.inbound.peer[1]
        history == client_mangle_history(d.results, client_ip)
        all_mangles == list(get_mangles(vectors, session.protocol.protocol_id))
        mangle == IF history = <<>> THEN all_mangles[1]
                  ELSE all_mangles[(index(all_mangles, history[Len(history)].mangle)
                                    % Len(all_mangles)) + 1]
    IN  IF sid \in DOMAIN d.session_to_mangle
        THEN [mangle |-> d.session_to_mangle[sid], d |-> d, exc |-> None]
        ELSE IF all_mangles = <<>> THEN [mangle |-> None, d |-> d, exc |-> None]
        ELSE [mangle |-> mangle,
              d |-> [results |-> SelectSeq(d.results, LAMBDA r : r.session < sid)
                                 \o <<[client |-> client_ip, session |-> sid,
                                       mangle |-> mangle, result |-> None]>>
                                 \o SelectSeq(d.results, LAMBDA r : r.session > sid),
                     session_to_mangle |-> (sid :> mangle) @@ d.session_to_mangle],
              exc |-> None]

\* get_mangle(session) on the dispatcher state d = [results, session_to_mangle]:
\* the vector returned (or None), the state left, the exception raised
get_mangle(d, sid, session) ==
    LET client_ip == session.inbound.peer[1]
        assign(mangle) ==
            [mangle |-> mangle,
             d |-> [results |-> Append(d.results,
                                  [client |-> client_ip, session |-> sid,
                                   mangle |-> mangle, result |-> None]),
                    session_to_mangle |-> (sid :> mangle) @@ d.session_to_mangle],
             exc |-> None]
        \* new_index = (all_mangles.index(previous_result['mangle'])+1)
        \*             % len(all_mangles)
        next(all_mangles, previous_index) ==
            IF previous_index = 0
            THEN [mangle |-> None, d |-> d, exc |-> "ValueError"]
            ELSE assign(all_mangles[(previous_index % Len(all_mangles)) + 1])
        choose(history, all_mangles) ==
            IF all_mangles = <<>> THEN [mangle |-> None, d |-> d, exc |-> None]
            ELSE IF history # <<>>
            THEN next(all_mangles,
                      index(all_mangles, history[Len(history)].mangle))
            ELSE assign(all_mangles[1])
    IN  IF sid \in DOMAIN d.session_to_mangle
        THEN [mangle |-> d.session_to_mangle[sid], d |-> d, exc |-> None]
        ELSE choose(client_mangle_history(d.results, client_ip),
                    list(get_mangles(vectors, session.protocol.protocol_id)))

\* RewriteDispatcher.mangle_client_data / mangle_server_data (leg is the side
\* the chunk came from): get_mangle is called once for the test and once
\* more for the call.  The result adds the vector called and the dispatcher
\* state left behind.
dispatcher_mangle(d, sid, session, leg, data, io) ==
    LET done(g2, r) ==
            [data |-> r.data, ops |-> r.ops, exc |-> r.exc, mangle |-> g2.mangle,
             d |-> IF \E i \in 1..Len(r.ops) : r.ops[i] = op_set_result
                   THEN [g2.d EXCEPT !.results = set_result(@, sid, "True")]
                   ELSE g2.d]
        call(g2) ==
            done(g2, IF leg = "inbound"
                     THEN vector_mangle_client_data(g2.mangle, session, data, io)
                     ELSE vector_mangle_server_data(g2.mangle, session, data, io))
        test(g1) ==
            IF g1.exc # None
            THEN [data |-> NoData, ops |-> <<>>, exc |-> g1.exc, mangle |-> None,
                  d |-> g1.d]
            ELSE IF g1.mangle = None
            THEN [data |-> data, ops |-> <<>>, exc |-> None, mangle |-> None,
                  d |-> g1.d]
            ELSE call(get_mangle(g1.d, sid, session))
    IN  test(get_mangle(d, sid, session))

\* a faulty test, which lets None and the empty string through
truthy_always(data) == TRUE

\* if data: (a returned None and an empty string are both false)
truthy(data) == data # NoData /\ data # <<>>

\* Session.on_recv(s_in, s_out, session) for the chunk data read from leg:
\* the Session and dispatcher state left, the exception raised, and the
\* record of the turn kept in wire (the chunk, the Session before it, the
\* vector called, what the vector did and what was forwarded).
on_recv(d, sid, session, leg, data, io) ==
    LET turn(out, exc, ops, mangle) ==
            [leg |-> leg, data |-> data, ops |-> ops, out |-> out, exc |-> exc,
             before |-> session, mangle |-> mangle]
        forward(s2, m) ==
            IF m.exc = None /\ truthy(m.data)
            THEN [session |-> [s2 EXCEPT ![other(leg)].sndbuf = m.data],
                  d |-> m.d, exc |-> None,
                  turn |-> turn(m.data, None, m.ops, m.mangle)]
            ELSE [session |-> s2, d |-> m.d, exc |-> m.exc,
                  turn |-> turn(NoData, m.exc, m.ops, m.mangle)]
        mangled(s1, m) == forward(apply_ops(s1, m.ops), m)
        received(s1) ==
            IF Len(data) = 0
            THEN [session |-> apply_op(s1, op_close), d |-> d,
                  exc |-> "SessionTerminatedException",
                  turn |-> turn(NoData, "SessionTerminatedException", <<>>, None)]
            ELSE mangled(s1, dispatcher_mangle(d, sid, s1, leg, data, io))
    IN  received([session EXCEPT ![leg].recvbuf = data,
                                 !.protocol = detect(session.protocol, data)])

(***************************************************************************)
(* The environment: what clients and the upstream server may send.         *)
(***************************************************************************)
client_chunks(port) ==
    CASE port = PROTO_SMTP ->
            {<<"E","H","L","O"," ","x","\r","\n">>, <<"S","T","A","R","T","T","L","S","\r","\n">>, <<"M","A","I","L"," ","F","R","O","M",":","<","a","@","b",">","\r","\n">>, <<"N","O","O","P","\r","\n">>,
             <<"S","T","A","R","T","T","L","S","\r","\n","M","A","I","L"," ","F","R","O","M",":","<","a","@","b",">","\r","\n">>, <<"R","C","P","T"," ","T","O",":","<","c","h","e","l","o","@","b",">","\r","\n">>}
      [] port = PROTO_POP3 ->
            {<<"C","A","P","A","\r","\n">>, <<"S","T","L","S","\r","\n">>, <<"U","S","E","R"," ","a","l","i","c","e","\r","\n">>, <<"N","O","O","P","\r","\n">>,
             <<"S","T","L","S","\r","\n","U","S","E","R"," ","a","l","i","c","e","\r","\n">>}
      [] port = PROTO_IMAP ->
            {<<"a","1"," ","C","A","P","A","B","I","L","I","T","Y","\r","\n">>, <<"a","2"," ","S","T","A","R","T","T","L","S","\r","\n">>, <<"a","3"," ","L","O","G","I","N"," ","u"," ","p","\r","\n">>,
             <<"a","4"," ","N","O","O","P","\r","\n">>, <<"a","2"," ","S","T","A","R","T","T","L","S","\r","\n","a","3"," ","L","O","G","I","N"," ","u"," ","p","\r","\n">>}
      [] port = PROTO_FTP ->
            {<<"F","E","A","T","\r","\n">>, <<"A","U","T","H"," ","T","L","S","\r","\n">>, <<"U","S","E","R"," ","a","l","i","c","e","\r","\n">>, <<"N","O","O","P","\r","\n">>,
             <<"A","U","T","H"," ","T","L","S","\r","\n","U","S","E","R"," ","a","l","i","c","e","\r","\n">>}
      [] port = PROTO_NNTP ->
            {<<"C","A","P","A","B","I","L","I","T","I","E","S","\r","\n">>, <<"S","T","A","R","T","T","L","S","\r","\n">>, <<"G","R","O","U","P"," ","m","i","s","c",".","t","e","s","t","\r","\n">>,
             <<"D","A","T","E","\r","\n">>, <<"S","T","A","R","T","T","L","S","\r","\n","G","R","O","U","P"," ","m","i","s","c",".","t","e","s","t","\r","\n">>}
      [] port = PROTO_XMPP ->
            {<<"<","s","t","r","e","a","m",":","s","t","r","e","a","m",">">>,
             <<"<","s","t","a","r","t","t","l","s"," ","x","m","l","n","s","=","'","u","r","n",":","i","e","t","f",":","p","a","r","a","m","s",":","x","m","l",":","n","s",":","x","m","p","p","-","t","l","s","'","/",">">>,
             <<"<","a","u","t","h",">","x","<","/","a","u","t","h",">">>, <<"<","i","q"," ","t","y","p","e","=","'","g","e","t","'","/",">">>,
             <<"<","s","t","a","r","t","t","l","s"," ","x","m","l","n","s","=","'","u","r","n",":","i","e","t","f",":","p","a","r","a","m","s",":","x","m","l",":","n","s",":","x","m","p","p","-","t","l","s","'","/",">","<","i","q"," ","t","y","p","e","=","'","g","e","t","'","/",">">>}
      [] port = PROTO_ACAP ->
            {<<"a","1"," ","S","T","A","R","T","T","L","S","\r","\n">>, <<"a","2"," ","A","U","T","H","E","N","T","I","C","A","T","E"," ","\"","P","L","A","I","N","\"","\r","\n">>, <<"a","3"," ","N","O","O","P","\r","\n">>,
             <<"a","1"," ","S","T","A","R","T","T","L","S","\r","\n","a","2"," ","A","U","T","H","E","N","T","I","C","A","T","E"," ","\"","P","L","A","I","N","\"","\r","\n">>}
      [] port = PROTO_IRC ->
            {<<"C","A","P"," ","L","S","\r","\n">>, <<"S","T","A","R","T","T","L","S","\r","\n">>, <<"P","R","I","V","M","S","G"," ","#","c"," ",":","h","i","\r","\n">>,
             <<"N","I","C","K"," ","b","o","b","\r","\n">>, <<"S","T","A","R","T","T","L","S","\r","\n","P","R","I","V","M","S","G"," ","#","c"," ",":","h","i","\r","\n">>}
      [] OTHER -> {<<"E","H","L","O"," ","x","\r","\n">>, <<"."," ","C","A","P","A","B","I","L","I","T","Y","\r","\n">>, <<"N","O","O","P","\r","\n">>}

server_chunks(port) ==
    CASE port = PROTO_SMTP ->
            {<<"2","5","0","-","a","\r","\n","2","5","0","-","S","T","A","R","T","T","L","S","\r","\n","2","5","0"," ","H","E","L","P","\r","\n">>,
             <<"2","5","0","-","S","T","A","R","T","T","L","S","\r","\n","2","5","0"," ","S","T","A","R","T","T","L","S","\r","\n">>,
             <<"2","5","0","-","S","I","Z","E","\r","\n","2","5","0"," ","S","T","A","R","T","T","L","S","\r","\n">>,
             <<"2","5","0"," ","O","K","\r","\n">>, <<"*"," ","O","K"," ","I","M","A","P","4"," ","r","e","a","d","y","\r","\n">>}
      [] port = PROTO_POP3 ->
            {<<"+","O","K"," ","C","a","p","a","b","i","l","i","t","y"," ","l","i","s","t"," ","f","o","l","l","o","w","s","\r","\n","T","O","P","\r","\n","S","T","L","S","\r","\n","S","T","L","S","\r","\n",".","\r","\n">>,
             <<"+","O","K"," ","r","e","a","d","y","\r","\n">>}
      [] port = PROTO_IMAP ->
            {<<"*"," ","C","A","P","A","B","I","L","I","T","Y"," ","I","M","A","P","4","r","e","v","1"," ","S","T","A","R","T","T","L","S"," ","L","O","G","I","N","D","I","S","A","B","L","E","D"," ","S","T","A","R","T","T","L","S","\r","\n">>,
             <<"*"," ","O","K"," ","r","e","a","d","y","\r","\n">>}
      [] port = PROTO_FTP ->
            {<<"2","1","1","-","F","e","a","t","u","r","e","s",":","\r","\n"," ","A","U","T","H"," ","T","L","S","\r","\n"," ","U","T","F","8","\r","\n"," ","A","U","T","H"," ","T","L","S","\r","\n","2","1","1"," ","E","n","d","\r","\n">>,
             <<"2","2","0"," ","r","e","a","d","y","\r","\n">>}
      [] port = PROTO_NNTP ->
            {<<"1","0","1"," ","C","a","p","a","b","i","l","i","t","y"," ","l","i","s","t",":","\r","\n","S","T","A","R","T","T","L","S","\r","\n","R","E","A","D","E","R","\r","\n","S","T","A","R","T","T","L","S","\r","\n",".","\r","\n">>,
             <<"2","0","0"," ","r","e","a","d","y","\r","\n">>}
      [] port = PROTO_XMPP ->
            {<<"<","f","e","a","t","u","r","e","s",">","<","s","t","a","r","t","t","l","s"," ","x","m","l","n","s","=","'","u","r","n",":","i","e","t","f",":","p","a","r","a","m","s",":","x","m","l",":","n","s",":","x","m","p","p","-","t","l","s","'",">","<","r","e","q","u","i","r","e","d","/",">","<","/","s","t","a","r","t","t","l","s",">","<","m","/",">","<","/","f","e","a","t","u","r","e","s",">">>,
             <<"<","f","e","a","t","u","r","e","s",">","<","s","t","a","r","t","t","l","s",">","<","/","s","t","a","r","t","t","l","s",">","<","m","/",">","<","s","t","a","r","t","t","l","s",">","<","/","s","t","a","r","t","t","l","s",">","<","/","f","e","a","t","u","r","e","s",">">>,
             <<"<","f","e","a","t","u","r","e","s",">","<","s","t","a","r","t","t","l","s"," ","x","m","l","n","s","=","'","u","r","n",":","i","e","t","f",":","p","a","r","a","m","s",":","x","m","l",":","n","s",":","x","m","p","p","-","t","l","s","'","/",">","<","/","f","e","a","t","u","r","e","s",">">>,
             <<"<","s","t","r","e","a","m",":","s","t","r","e","a","m",">">>}
      [] port = PROTO_ACAP ->
            {<<"*"," ","A","C","A","P"," ","(","I","M","P","L","E","M","E","N","T","A","T","I","O","N"," ","\"","x","\"",")"," ","(","S","T","A","R","T","T","L","S",")"," ","(","S","A","S","L"," ","\"","P","L","A","I","N","\"",")"," ","(","S","T","A","R","T","T","L","S",")","\r","\n">>,
             <<"a","3"," ","O","K"," ","\"","d","o","n","e","\"","\r","\n">>}
      [] port = PROTO_IRC ->
            {<<":","i","r","c",".","s","r","v"," ","C","A","P"," ","*"," ","L","S"," ",":","m","u","l","t","i","-","p","r","e","f","i","x"," ","t","l","s"," ","s","a","s","l","\r","\n">>,
             <<":","i","r","c",".","s","r","v"," ","N","O","T","I","C","E"," ","b","o","b"," ",":","h","e","l","l","o","\r","\n">>,
             <<":","i","r","c",".","s","r","v"," ","P","R","I","V","M","S","G"," ","b","o","b"," ",":","h","i","\r","\n">>}
      [] OTHER -> {<<"2","2","0"," ","r","e","a","d","y","\r","\n">>, <<"*"," ","O","K"," ","r","e","a","d","y","\r","\n">>}

\* what the upstream server may answer to the forwarded TLS command: a
\* response the vector accepts, a refusal, and a refusal that resembles the
\* accepted response
upstream_responses(port) ==
    CASE port = PROTO_SMTP ->
            <<<<"2","2","0"," ","R","e","a","d","y"," ","t","o"," ","s","t","a","r","t"," ","T","L","S","\r","\n">>, <<"4","5","4"," ","n","o","\r","\n">>, <<"2","2"," ","0","\r","\n">>>>
      [] port = PROTO_POP3 ->
            <<<<"+","O","K"," ","B","e","g","i","n"," ","T","L","S","\r","\n">>, <<"-","E","R","R"," ","n","o","\r","\n">>, <<"+","o","k","\r","\n">>>>
      [] port = PROTO_IMAP ->
            <<<<"a","2"," ","O","K"," ","B","e","g","i","n"," ","T","L","S","\r","\n">>, <<"a","2"," ","N","O","\r","\n">>, <<"a","1"," ","O","K","\r","\n">>>>
      [] port = PROTO_FTP ->
            <<<<"2","3","4"," ","A","U","T","H"," ","T","L","S"," ","O","K","\r","\n">>, <<"5","0","0"," ","n","o","\r","\n">>, <<"5","0","0"," ","2","3","4","\r","\n">>>>
      [] port = PROTO_NNTP ->
            <<<<"3","8","2"," ","C","o","n","t","i","n","u","e","\r","\n">>, <<"5","0","2"," ","n","o","\r","\n">>, <<"5","0","2"," ","3","8","2","\r","\n">>>>
      [] port = PROTO_XMPP ->
            <<<<"<","p","r","o","c","e","e","d"," ","x","m","l","n","s","=","'","u","r","n",":","i","e","t","f",":","p","a","r","a","m","s",":","x","m","l",":","n","s",":","x","m","p","p","-","t","l","s","'","/",">">>, <<"<","f","a","i","l","u","r","e","/",">">>,
              <<"<","p","r","o","c","e","e","d","/",">">>>>
      [] port = PROTO_ACAP ->
            <<<<"a","1"," ","O","K"," ","\"","B","e","g","i","n"," ","T","L","S","\"","\r","\n">>, <<"a","1"," ","N","O"," ","\"","n","o","\"","\r","\n">>, <<"a","1"," ","O","K","\r","\n">>>>
      [] port = PROTO_IRC ->
            <<<<":","i","r","c",".","s","r","v"," ","6","7","0"," ","b","o","b"," ",":","S","T","A","R","T","T","L","S"," ","s","u","c","c","e","s","s","f","u","l","\r","\n">>,
              <<":","i","r","c",".","s","r","v"," ","6","9","1"," ","b","o","b"," ",":","S","T","A","R","T","T","L","S"," ","f","a","i","l","e","d","\r","\n">>, <<":","i","r","c",".","s","r","v"," ","6","7","0","\r","\n">>>>
      [] OTHER -> <<<<"2","2","0"," ","r","e","a","d","y","\r","\n">>, <<"4","5","4"," ","n","o","\r","\n">>, <<"2","2"," ","0","\r","\n">>>>

io_none == [hs_in |-> "ok", resp |-> <<>>, hs_out |-> "ok"]

\* vectors whose manglers block on the upstream server or on a handshake
blocking(v, leg) ==
    IF leg = "inbound"
    THEN v \in {"SMTP.UntrustedIntercept", "SMTP.InjectCommand",
                "POP3.UntrustedIntercept", "IMAP.UntrustedIntercept",
                "FTP.UntrustedIntercept", "NNTP.UntrustedIntercept",
                "XMPP.UntrustedIntercept", "ACAP.UntrustedIntercept",
                "IRC.UntrustedIntercept"}
    ELSE v = "XMPP.StripInboundTLS"

\* the outcomes of the blocking calls that lead to different runs
io_choices(v, leg, port) ==
    IF ~blocking(v, leg) THEN {io_none}
    ELSE LET good == upstream_responses(port)[1]
             bad == upstream_responses(port)[2]
             near == upstream_responses(port)[3]
         IN  {[hs_in |-> "fail", resp |-> <<>>, hs_out |-> "ok"],
              [hs_in |-> "ok", resp |-> bad, hs_out |-> "ok"],
              [hs_in |-> "ok", resp |-> near, hs_out |-> "ok"],
              [hs_in |-> "ok", resp |-> <<>>, hs_out |-> "ok"],
              [hs_in |-> "ok", resp |-> good, hs_out |-> "ok"],
              [hs_in |-> "ok", resp |-> good, hs_out |-> "fail"],
              [hs_in |-> "ok", resp |-> good, hs_out |-> "eof"]}

(***************************************************************************)
(* Bounds of the model.                                                    *)
(***************************************************************************)
\* connections the clients open in a run of the dispatcher scenarios
MaxSessions == 3
\* chunks (or closes) the peers send in a run of the dispatcher scenarios
MaxRecv == 3
\* chunks (or closes) the peers send in a run of a single-vector scenario
MaxChunks == 3
\* sockets select() reports ready in one round
MaxReady == 2

ClientIPs == {"1.2.3.4", "5.6.7.8"}

Range(xs) == {xs[i] : i \in 1..Len(xs)}

\* the orders in which a Python set of these vector classes may be iterated
orders(s) ==
    {f \in [1..Cardinality(s) -> s] :
        \A i, j \in 1..Cardinality(s) : f[i] = f[j] => i = j}

(***************************************************************************)
(* main(): ProxyServer and RewriteDispatcher are constructed, then every   *)
(* name of options.vectors is registered, then main_loop runs.             *)
(***************************************************************************)
InitWith(options, tgt, e) ==
    /\ pc = "main"
    /\ todo = options
    /\ target = tgt
    /\ setorder \in orders(Range(options))
    /\ vectors = <<>>
    /\ results = <<>>
    /\ session_to_mangle = <<>>
    /\ objs = <<>>
    /\ input_list = {}
    /\ sessions = <<>>
    /\ inputready = {}
    /\ raised = None
    /\ wire = <<>>
    /\ env = e

\* rewrite.add(cls_proto._PROTO_ID, cls_vector) for the next name
Add ==
    /\ pc = "main"
    /\ todo # <<>>
    /\ vectors' = add(vectors, PROTO_ID(Head(todo)), Head(todo))
    /\ todo' = Tail(todo)
    /\ UNCHANGED <<pc, target, setorder, results, session_to_mangle, objs,
                   input_list, sessions, inputready, raised, wire, env>>

\* prx.main_loop(): self.input_list.add(self.inbound)
MainLoop ==
    /\ pc = "main"
    /\ todo = <<>>
    /\ pc' = "main_loop"
    /\ input_list' = input_list \cup {listener}
    /\ UNCHANGED <<todo, target, setorder, vectors, results, session_to_mangle,
                   objs, sessions, inputready, raised, wire, env>>

\* the sockets whose peer has closed the connection: they stay readable,
\* and a read of them returns the empty string
hungup == IF "hungup" \in DOMAIN env THEN env.hungup ELSE {}

\* inputready, _, _ = select.select(self.input_list, [], [])
Select ==
    /\ pc = "main_loop"
    /\ inputready = {}
    /\ \E ready \in SUBSET input_list :
          /\ ready # {}
          /\ Cardinality(ready) <= MaxReady
          /\ listener \in ready => env.accepts > 0
          /\ Cardinality((ready \ {listener}) \ hungup) <= env.recvs
          /\ inputready' = ready
    /\ UNCHANGED <<pc, todo, target, setorder, vectors, results,
                   session_to_mangle, objs, input_list, sessions, raised, wire,
                   env>>

\* the calls of the accept branch that the scenario lets fail with
\* socket.error: Session(...) (proxy.getsockname()), self.proxy.accept(),
\* self.outbound.connect(target)
accept_faults == IF "faults" \in DOMAIN env THEN env.faults ELSE {}

\* except Exception, e: of main_loop, for an exception exc raised in the
\* accept branch with session bound to a Session (if session:) or still
\* None: what leaves input_list and what is raised out of main_loop.
\* self.inbound is the listening socket, which has no method remove.
on_exception(session, exc) ==
    IF session
    THEN [removed |-> {}, raised |-> exc]
    ELSE [removed |-> {}, raised |-> "AttributeError"]

\* sock == self.inbound: a Session is built, accepts the client and connects
\* to the target; its two sockets enter self.sessions and self.input_list
Accept ==
    /\ pc = "main_loop"
    /\ listener \in inputready
    /\ \/ /\ \E ip \in env.ips :
                LET sid == Len(objs) + 1
                IN  /\ objs' = Append(objs, Session(<<ip>>, target))
                    /\ sessions' = (sock(sid, "inbound") :> sid)
                                   @@ (sock(sid, "outbound") :> sid) @@ sessions
                    /\ input_list' = input_list
                                     \cup {sock(sid, "inbound"), sock(sid, "outbound")}
                    /\ wire' = Append(wire, <<>>)
          /\ inputready' = inputready \ {listener}
          /\ UNCHANGED <<pc, raised>>
       \/ /\ \E fault \in accept_faults, ip \in env.ips :
                LET session == IF fault = "accept" THEN Session(<<None>>, target)
                               ELSE Session(<<ip>>, target)
                    h == on_exception(fault # "Session", "socket.error")
                IN  /\ raised' = h.raised
                    /\ input_list' = input_list \ h.removed
                    /\ IF fault = "Session"
                       THEN UNCHANGED <<objs, wire>>
                       ELSE /\ objs' = Append(objs, session)
                            /\ wire' = Append(wire, <<>>)
          /\ pc' = "raised"
          /\ UNCHANGED <<sessions, inputready>>
    /\ env' = [env EXCEPT !.accepts = @ - 1]
    /\ UNCHANGED <<todo, target, setorder, vectors, results, session_to_mangle>>

\* any other ready socket: session.notify_read(sock), and main_loop's
\* handling of the exception it raises
OnRecv ==
    /\ pc = "main_loop"
    /\ \E sk \in inputready \ {listener} :
          LET sid == sessions[sk]
              leg == sk[2]
              session == objs[sid]
              peer_sockets == {sock(sid, "inbound"), sock(sid, "outbound")}
              d == [results |-> results, session_to_mangle |-> session_to_mangle]
          IN  IF session[leg].closed
              THEN \* recv on a closed socket raises socket.error
                   /\ raised' = "socket.error"
                   /\ pc' = "raised"
                   /\ input_list' = input_list \ peer_sockets
                   /\ UNCHANGED <<objs, results, session_to_mangle, wire,
                                  inputready, env>>
              ELSE \E data \in IF sk \in hungup THEN {<<>>}
                                ELSE {<<>>} \cup (IF leg = "inbound"
                                                  THEN env.client
                                                  ELSE env.server) :
                   LET detected == [session EXCEPT
                                       !.protocol = detect(session.protocol, data)]
                       v == get_mangle(d, sid, detected).mangle
                   IN  \E io \in io_choices(v, leg, target[2]) :
                       \E r \in {on_recv(d, sid, session, leg, data, io)} :
                           /\ objs' = [objs EXCEPT ![sid] = r.session]
                           /\ results' = r.d.results
                           /\ session_to_mangle' = r.d.session_to_mangle
                           /\ wire' = [wire EXCEPT ![sid] = Append(@, r.turn)]
                           /\ env' = IF sk \in hungup THEN env
                                     ELSE [env EXCEPT !.recvs = @ - 1]
                           /\ IF r.exc = None
                              THEN /\ inputready' = inputready \ {sk}
                                   /\ UNCHANGED <<input_list, raised, pc>>
                              ELSE IF r.exc = "SessionTerminatedException"
                              THEN /\ inputready' = inputready \ {sk}
                                   /\ input_list' = input_list \ peer_sockets
                                   /\ UNCHANGED <<raised, pc>>
                              ELSE /\ input_list' = input_list \ peer_sockets
                                   /\ raised' = r.exc
                                   /\ pc' = "raised"
                                   /\ UNCHANGED inputready
    /\ UNCHANGED <<todo, target, setorder, vectors, sessions>>

Next == Add \/ MainLoop \/ Select \/ Accept \/ OnRecv

(***************************************************************************)
(* Scenarios.  Spec: several clients open sessions against an SMTP target  *)
(* with two or three registered vectors.  SpecVectors: one client, one     *)
(* session, one registered vector; every vector of the catalogue in turn,  *)
(* against the port of its protocol.                                       *)
(***************************************************************************)
DispatcherOptions ==
    {<<"SMTP.StripWithTemporaryError", "SMTP.StripWithError",
       "SMTP.StripWithTemporaryError">>,
     <<"SMTP.StripWithError", "SMTP.StripFromCapabilities",
       "SMTP.StripWithInvalidResponseCode">>}

Init ==
    \E options \in DispatcherOptions :
        InitWith(options, <<"mail.server.tld", 25>>,
                 [vectors |-> options, ips |-> ClientIPs, accepts |-> MaxSessions, recvs |-> MaxRecv,
                  client |-> {<<"S","T","A","R","T","T","L","S","\r","\n">>},
                  server |-> {<<"2","5","0"," ","O","K","\r","\n">>}])

Spec == Init /\ [][Next]_vars

InitVectors ==
    \E v \in all_vectors :
        InitWith(<<v>>, <<"server.tld", PROTO_ID(v)>>,
                 [vectors |-> <<v>>, ips |-> {"1.2.3.4"}, accepts |-> 1, recvs |-> MaxChunks,
                  client |-> client_chunks(PROTO_ID(v)),
                  server |-> server_chunks(PROTO_ID(v))])

SpecVectors == InitVectors /\ [][Next]_vars

(***************************************************************************)
(* SpecDetect: one client and one session against a target port that is    *)
(* not in PORTMAP, so that the protocol is detected from the chunks; a     *)
(* vector of SMTP and a vector of XMPP are registered.                     *)
(***************************************************************************)
DetectOptions ==
    <<"SMTP.StripWithError", "XMPP.StripFromCapabilities">>

InitDetect ==
    InitWith(DetectOptions, <<"server.tld", 2525>>,
             [vectors |-> DetectOptions, ips |-> {"1.2.3.4"}, accepts |-> 1,
              recvs |-> MaxChunks,
              client |-> {<<"E","H","L","O"," ","x","m","p","p","\r","\n">>, <<"x","m","p","p"," ","."," ","c","a","p","a","b","i","l","i","t","y","\r","\n">>,
                          <<"."," ","C","A","P","A","B","I","L","I","T","Y"," ","A","U","T","H"," ","T","L","S","\r","\n">>, <<"A","U","T","H"," ","T","L","S","\r","\n">>,
                          <<"N","O","O","P","\r","\n">>},
              server |-> {<<"2","2","0"," ","r","e","a","d","y","\r","\n">>, <<"2","5","0","-","S","T","A","R","T","T","L","S","\r","\n","2","5","0"," ","H","E","L","P","\r","\n">>,
                          <<"*"," ","O","K"," ","x","m","p","p"," ","a","u","t","h"," ","t","l","s","\r","\n">>}])

SpecDetect == InitDetect /\ [][Next]_vars

(***************************************************************************)
(* SpecIntercept: one client opens two sessions against an SMTP target     *)
(* with SMTP.UntrustedIntercept registered, so that one session can be     *)
(* intercepted while a chunk of the other is waiting to be read.           *)
(***************************************************************************)
InterceptOptions == <<"SMTP.UntrustedIntercept">>

InitIntercept ==
    InitWith(InterceptOptions, <<"mail.server.tld", 25>>,
             [vectors |-> InterceptOptions, ips |-> {"1.2.3.4"}, accepts |-> 2,
              recvs |-> MaxRecv,
              client |-> {<<"S","T","A","R","T","T","L","S","\r","\n">>, <<"M","A","I","L"," ","F","R","O","M",":","<","a","@","b",">","\r","\n">>},
              server |-> {<<"2","5","0"," ","O","K","\r","\n">>}])

SpecIntercept == InitIntercept /\ [][Next]_vars

(***************************************************************************)
(* SpecFaults: as SpecIntercept with SMTP.StripWithError, and the calls of *)
(* the accept branch may fail.                                             *)
(***************************************************************************)
FaultOptions == <<"SMTP.StripWithError">>

InitFaults ==
    InitWith(FaultOptions, <<"mail.server.tld", 25>>,
             [vectors |-> FaultOptions, ips |-> {"1.2.3.4"}, accepts |-> 2,
              recvs |-> MaxRecv,
              client |-> {<<"S","T","A","R","T","T","L","S","\r","\n">>, <<"M","A","I","L"," ","F","R","O","M",":","<","a","@","b",">","\r","\n">>},
              server |-> {<<"2","5","0"," ","O","K","\r","\n">>},
              faults |-> {"Session", "accept", "connect"}])

SpecFaults == InitFaults /\ [][Next]_vars

(***************************************************************************)
(* SpecLive: as SpecIntercept, and the peers may close their connections   *)
(* at any time; main_loop goes on selecting and handling as long as it     *)
(* has not been left by an exception.                                      *)
(***************************************************************************)
\* the peer of a socket of an open Session closes the connection
PeerClose ==
    /\ pc = "main_loop"
    /\ "hungup" \in DOMAIN env
    /\ \E sk \in input_list \ ({listener} \cup hungup) :
          env' = [env EXCEPT !.hungup = @ \cup {sk}]
    /\ UNCHANGED <<pc, todo, target, setorder, vectors, results,
                   session_to_mangle, objs, input_list, sessions, inputready,
                   raised, wire>>

NextLive == Next \/ PeerClose

InitLive ==
    InitWith(InterceptOptions, <<"mail.server.tld", 25>>,
             [vectors |-> InterceptOptions, ips |-> {"1.2.3.4"}, accepts |-> 2,
              recvs |-> MaxReady,
              client |-> {<<"S","T","A","R","T","T","L","S","\r","\n">>},
              server |-> {<<"2","5","0"," ","O","K","\r","\n">>},
              hungup |-> {}])

\* while True: select() returns when a socket is readable, and every
\* socket it returned is handled
SpecLive ==
    InitLive /\ [][NextLive]_vars /\ WF_vars(Select) /\ WF_vars(Accept)
             /\ WF_vars(OnRecv)

(***************************************************************************)
(* SpecDetectTwo: as SpecDetect, with two sessions of the one client.      *)
(***************************************************************************)
InitDetectTwo ==
    InitWith(DetectOptions, <<"server.tld", 2525>>,
             [vectors |-> DetectOptions, ips |-> {"1.2.3.4"}, accepts |-> 2,
              recvs |-> MaxReady,
              client |-> {<<"E","H","L","O"," ","x","\r","\n">>, <<"<","s","t","r","e","a","m",":","s","t","r","e","a","m"," ","t","o","=","'","x","m","p","p",".","o","r","g","'",">">>,
                          <<"N","O","O","P","\r","\n">>},
              server |-> {<<"2","2","0"," ","r","e","a","d","y","\r","\n">>}])

SpecDetectTwo == InitDetectTwo /\ [][Next]_vars

(***************************************************************************)
(* Properties of the dispatcher, checked under Spec.                       *)
(***************************************************************************)
dispatcher == [results |-> results, session_to_mangle |-> session_to_mangle]

\* the vectors of options.vectors in the order of their first registration
RECURSIVE deduplicated(_)
deduplicated(xs) ==
    IF xs = <<>> THEN <<>>
    ELSE LET front == deduplicated(SubSeq(xs, 1, Len(xs) - 1))
             last == xs[Len(xs)]
         IN  IF last \in Range(front) THEN front ELSE Append(front, last)

registration_order == deduplicated(env.vectors)

\* the order in which get_mangle lists the vectors of the target's protocol
iteration_order == list(get_mangles(vectors, PORTMAP(target[2])))

\* the records of the sessions of one client, oldest first
records_of(ip) == SelectSeq(results, LAMBDA r : r.client = ip)

\* the i-th record of every client names the vector at (i-1) mod K of order
rotates_through(order) ==
    \A ip \in env.ips :
        LET history == records_of(ip)
        IN  \A i \in 1..Len(history) :
                history[i].mangle = order[((i - 1) % Len(order)) + 1]

C2_OneRecordPerSession ==
    \A i, j \in 1..Len(results) : results[i].session = results[j].session => i = j

\* a session with a record of which three chunks have been mangled
C2_Witness ==
    \E sid \in 1..Len(wire) :
        /\ Len(wire[sid]) = 3
        /\ \A k \in 1..3 : wire[sid][k].mangle # None
        /\ \E i \in 1..Len(results) : results[i].session = sid

\* C3: once get_mangle has assigned a vector to a session, every later
\* get_mangle call for that session returns that vector: the call that
\* could be made in any reachable state does, and the calls made for the
\* chunks handled so far did.
C3_StableAssignment ==
    /\ \A i \in 1..Len(results) :
          LET sid == results[i].session
          IN  /\ get_mangle(dispatcher, sid, objs[sid]).mangle = results[i].mangle
              /\ get_mangle(dispatcher, sid, objs[sid]).exc = None
              /\ \A k \in 1..Len(wire[sid]) :
                    wire[sid][k].mangle \in {None, results[i].mangle}
    /\ \A sid \in 1..Len(wire) :
          \A k \in 1..Len(wire[sid]) :
              wire[sid][k].mangle # None =>
                  \E i \in 1..Len(results) : results[i].session = sid

\* a session mangled a chunk, then another session of the same client was
\* assigned the other vector, then the first session mangled a chunk again
C3_Witness ==
    /\ Len(results) >= 2
    /\ results[1].client = results[2].client
    /\ results[1].mangle # results[2].mangle
    /\ Len(wire[results[1].session]) = 2
    /\ Len(wire[results[2].session]) = 1
    /\ wire[results[1].session][2].mangle = results[1].mangle

\* the vector get_mangle assigns to a new session of ip on the records rs
assigned_on(rs, ip) ==
    get_mangle([results |-> rs, session_to_mangle |-> session_to_mangle],
               Len(objs) + 1, Session(<<ip>>, target)).mangle

\* C4: rotation is per client IP.  The vector a new session of a client is
\* assigned is the one it is assigned on the records of that client alone;
\* the first session of a client gets the vector at index 0; and the
\* records of a client follow the rotation whatever records of other
\* clients lie in between.
C4_PerClientRotation ==
    pc = "main_loop" =>
        \A ip \in env.ips :
            LET history == records_of(ip)
            IN  /\ assigned_on(results, ip) = assigned_on(history, ip)
                /\ history = <<>> => assigned_on(results, ip) = iteration_order[1]
                /\ history # <<>> => history[1].mangle = iteration_order[1]
                /\ \A i \in 1..(Len(history) - 1) :
                      history[i + 1].mangle =
                          iteration_order[(index(iteration_order, history[i].mangle)
                                           % Len(iteration_order)) + 1]

\* a client was assigned the first vector, another client was assigned a
\* vector in between, and the first client was then assigned the second
C4_Witness ==
    /\ Len(results) = 3
    /\ results[1].client = results[3].client
    /\ results[2].client # results[1].client
    /\ results[1].mangle = iteration_order[1]
    /\ results[2].mangle = iteration_order[1]
    /\ results[3].mangle = iteration_order[2]

(***************************************************************************)
(* Properties of the vectors, checked under SpecVectors.                   *)
(***************************************************************************)
\* the turns recorded so far, as pairs of a Session and a position in its log
turns == UNION {{<<sid, k>> : k \in 1..Len(wire[sid])} : sid \in 1..Len(wire)}
turn_at(st) == wire[st[1]][st[2]]

\* the TLS roles of the two sockets of a Session, and the roles a Session
\* was left with by the turn at st
roles(session) == <<session.inbound.socket_ssl, session.outbound.socket_ssl>>
roles_after(st) ==
    IF st[2] < Len(wire[st[1]]) THEN roles(wire[st[1]][st[2] + 1].before)
    ELSE roles(objs[st[1]])

UntrustedIntercept_vectors ==
    {"SMTP.UntrustedIntercept", "POP3.UntrustedIntercept", "IMAP.UntrustedIntercept",
     "FTP.UntrustedIntercept", "NNTP.UntrustedIntercept", "XMPP.UntrustedIntercept",
     "ACAP.UntrustedIntercept", "IRC.UntrustedIntercept"}

\* the operations a sequence of operations has of one kind on one leg
ops_of(ops, op, leg) == SelectSeq(ops, LAMBDA o : o.op = op /\ o.leg = leg)
only_set_result(ops) == \A i \in 1..Len(ops) : ops[i] = op_set_result

\* a turn in which an UntrustedIntercept vector handled the client's
\* TLS-initiation command: it answered the client itself
intercepting(t) ==
    /\ t.mangle \in UntrustedIntercept_vectors
    /\ t.leg = "inbound"
    /\ ~only_set_result(t.ops)

intercept_steps ==
    <<<<"sendall", "inbound">>, <<"wrap", "inbound">>, <<"sendall", "outbound">>,
      <<"recv", "outbound">>, <<"wrap", "outbound">>>>

\* C5: an UntrustedIntercept handles the TLS-initiation command in this
\* order within one turn: acceptance injected to the client, server-role
\* handshake on the inbound leg, the original command sent upstream, the
\* upstream response read and validated, client-role handshake on the
\* outbound leg.  A turn that ends early has done a prefix of these steps;
\* the command is sent upstream only after the inbound handshake, and every
\* later chunk of the session is handled with the outbound handshake done.
C5_InterceptOrder ==
    \A st \in turns :
        LET t == turn_at(st)
        IN  intercepting(t) =>
              /\ Len(t.ops) <= Len(intercept_steps)
              /\ \A i \in 1..Len(t.ops) :
                    <<t.ops[i].op, t.ops[i].leg>> = intercept_steps[i]
              /\ Len(t.ops) >= 2 => t.ops[2].data = <<"server">>
              /\ Len(t.ops) >= 3 => t.ops[3].data = t.data
              /\ Len(t.ops) = 5 =>
                    /\ t.ops[4].data = upstream_responses(target[2])[1]
                    /\ t.ops[5].data = <<"client">>
              /\ t.exc = None <=> Len(t.ops) = 5
              /\ t.exc = "ProtocolViolationException" =>
                    /\ Len(t.ops) = 4
                    /\ t.ops[4].data # upstream_responses(target[2])[1]
              /\ \A later \in turns :
                    later[1] = st[1] /\ later[2] > st[2] =>
                        roles(turn_at(later).before) = <<"server", "client">>

\* an intercept ran to completion and a further chunk of the session was
\* handled after it
C5_Witness ==
    \E st \in turns :
        /\ intercepting(turn_at(st))
        /\ Len(turn_at(st).ops) = 5
        /\ turn_at(st).mangle = "IMAP.UntrustedIntercept"
        /\ st[2] < Len(wire[st[1]])
        /\ Len(wire[st[1]][st[2] + 1].data) > 0

\* C6: after an UntrustedIntercept handling has run to completion the
\* inbound socket is a TLS server and the outbound socket a TLS client, the
\* client's command has been written upstream once, by the vector and in
\* cleartext, and the session loop forwards nothing for that chunk.
C6_InterceptedOnce ==
    \A st \in turns :
        LET t == turn_at(st)
        IN  intercepting(t) /\ t.exc = None =>
              /\ roles(t.before) = <<None, None>>
                    => roles_after(st) = <<"server", "client">>
              /\ Len(ops_of(t.ops, "sendall", "outbound")) = 1
              /\ ops_of(t.ops, "sendall", "outbound")[1].data = t.data
              /\ \A i \in 1..Len(t.ops) :
                    t.ops[i] = op_sendall("outbound", t.data) =>
                        \A j \in 1..(i - 1) : t.ops[j] # op_wrap("outbound", "client")
              /\ t.out = NoData
              /\ st[2] = Len(wire[st[1]]) => objs[st[1]].outbound.sndbuf = t.data

\* an SMTP intercept ran to completion on sockets that were in cleartext
C6_Witness ==
    \E st \in turns :
        /\ intercepting(turn_at(st))
        /\ turn_at(st).exc = None
        /\ turn_at(st).mangle = "SMTP.UntrustedIntercept"
        /\ roles(turn_at(st).before) = <<None, None>>
        /\ roles_after(st) = <<"server", "client">>

StripFromCapabilities_vectors ==
    {"SMTP.StripFromCapabilities", "POP3.StripFromCapabilities",
     "IMAP.StripFromCapabilities", "FTP.StripFromCapabilities",
     "NNTP.StripFromCapabilities", "XMPP.StripFromCapabilities",
     "ACAP.StripFromCapabilities", "IRC.StripFromCapabilities"}

\* the chunk contains the TLS keyword of the protocol
has_tls_keyword(proto, data) ==
    CASE proto = PROTO_POP3 -> In(<<"s","t","l","s">>, lower(data))
      [] proto = PROTO_FTP -> In(<<"A","U","T","H"," ","T","L","S">>, data)
      [] proto = PROTO_XMPP -> In(<<"<","s","t","a","r","t","t","l","s">>, data)
      [] proto = PROTO_IRC -> In(<<" ","t","l","s">>, lower(data))
      [] OTHER -> In(<<"S","T","A","R","T","T","L","S">>, data)

\* the server chunk of turn t is a capability advertisement: the reply to
\* EHLO, FEAT or CAPABILITIES, or a chunk with the marker of the protocol's
\* capability list
advertisement(proto, t) ==
    CASE proto = PROTO_SMTP ->
            /\ In(<<"e","h","l","o">>, lower(t.before.outbound.sndbuf))
            /\ In(<<"2","5","0">>, t.data)
      [] proto = PROTO_POP3 -> startswith(lower(t.data), <<"+","o","k"," ","c","a","p","a","b","i","l","i","t","y">>)
      [] proto = PROTO_IMAP -> In(<<"C","A","P","A","B","I","L","I","T","Y"," ">>, t.data)
      [] proto = PROTO_FTP -> lower(strip(t.before.outbound.sndbuf)) = <<"f","e","a","t">>
      [] proto = PROTO_NNTP ->
            lower(strip(t.before.outbound.sndbuf)) = <<"c","a","p","a","b","i","l","i","t","i","e","s">>
      [] proto = PROTO_XMPP -> In(<<"<","f","e","a","t","u","r","e","s">>, t.data)
      [] proto = PROTO_ACAP -> In(<<"A","C","A","P">>, t.data)
      [] proto = PROTO_IRC -> In(<<" ","c","a","p"," ">>, lower(t.data))
      [] OTHER -> FALSE

\* C7: whenever a StripFromCapabilities vector runs on a server
\* advertisement that contains the protocol's TLS keyword, nothing that is
\* forwarded to the client contains the keyword, also when the
\* advertisement carries the keyword more than once.
C7_KeywordStripped ==
    \A st \in turns :
        LET t == turn_at(st)
            proto == PROTO_ID(t.mangle)
        IN  /\ t.mangle \in StripFromCapabilities_vectors
            /\ t.leg = "outbound"
            /\ advertisement(proto, t)
            /\ has_tls_keyword(proto, t.data)
            => t.out = NoData \/ ~has_tls_keyword(proto, t.out)

\* the same property for the vectors other than XMPP.StripFromCapabilities
\* (it holds)
KeywordStripped_ButXMPP ==
    \A st \in turns :
        LET t == turn_at(st)
            proto == PROTO_ID(t.mangle)
        IN  /\ t.mangle \in StripFromCapabilities_vectors \ {"XMPP.StripFromCapabilities"}
            /\ t.leg = "outbound"
            /\ advertisement(proto, t)
            /\ has_tls_keyword(proto, t.data)
            => t.out = NoData \/ ~has_tls_keyword(proto, t.out)

\* the chunk of turn t matches a trigger of the vector on the server side:
\* the vector rewrites, answers or suppresses such a chunk
server_trigger(v, t) ==
    CASE v \in {"SMTP.StripFromCapabilities", "SMTP.StripWithInvalidResponseCode"} ->
            SMTP_after_ehlo(t.before, t.data)
      [] v = "SMTP.ProtocolDowngradeToV2" ->
            In(<<"i","m","a","p","4">>, lower(t.data)) /\ In(<<"*"," ","o","k"," ">>, lower(t.data))
      [] v = "FTP.StripFromCapabilities" ->
            advertisement(PROTO_FTP, t) /\ has_tls_keyword(PROTO_FTP, t.data)
      [] v = "NNTP.StripFromCapabilities" ->
            advertisement(PROTO_NNTP, t) /\ has_tls_keyword(PROTO_NNTP, t.data)
      [] v = "ACAP.StripFromCapabilities" ->
            advertisement(PROTO_ACAP, t) /\ has_tls_keyword(PROTO_ACAP, t.data)
      [] v = "IRC.StripFromCapabilities" ->
            advertisement(PROTO_IRC, t) /\ has_tls_keyword(PROTO_IRC, t.data)
      [] v \in {"POP3.StripFromCapabilities", "IMAP.StripFromCapabilities"} ->
            advertisement(PROTO_ID(v), t)
      [] v \in {"XMPP.StripFromCapabilities", "XMPP.StripInboundTLS"} ->
            has_tls_keyword(PROTO_XMPP, t.data)
      [] OTHER -> FALSE

\* the chunk of turn t matches a trigger of the vector on the client side:
\* the vector answered the client itself or raised, or it is the STARTTLS
\* that StripWithSilentDrop suppresses
client_trigger(v, t) ==
    \/ ~only_set_result(t.ops)
    \/ t.exc # None
    \/ v = "IRC.StripWithSilentDrop" /\ In(<<"S","T","A","R","T","T","L","S">>, t.data)

untriggered(t) ==
    /\ t.mangle # None
    /\ t.exc = None
    /\ IF t.leg = "inbound" THEN ~client_trigger(t.mangle, t)
       ELSE ~server_trigger(t.mangle, t)

\* C8: a chunk that matches none of the assigned vector's rewrite, suppress
\* or inject triggers is written to the opposite leg byte for byte as it
\* was received.
C8_Transparency ==
    \A st \in turns : untriggered(turn_at(st)) => turn_at(st).out = turn_at(st).data

\* the same property for the vectors other than IRC.StripFromCapabilities
\* (it holds)
Transparency_ButIRC ==
    \A st \in turns :
        /\ untriggered(turn_at(st))
        /\ turn_at(st).mangle # "IRC.StripFromCapabilities"
        => turn_at(st).out = turn_at(st).data

refusal_vectors ==
    {"SMTP.StripWithError", "POP3.StripWithError", "IMAP.StripWithError",
     "FTP.StripWithError", "NNTP.StripWithError", "ACAP.StripWithError",
     "IRC.StripWithError", "SMTP.StripWithTemporaryError",
     "SMTP.StripWithInvalidResponseCode", "IRC.StripWithNotRegistered"}

\* the TLS-initiation command as the clients of the protocol send it
tls_command(proto) ==
    CASE proto = PROTO_POP3 -> <<"S","T","L","S","\r","\n">>
      [] proto = PROTO_IMAP -> <<"a","2"," ","S","T","A","R","T","T","L","S","\r","\n">>
      [] proto = PROTO_FTP -> <<"A","U","T","H"," ","T","L","S","\r","\n">>
      [] proto = PROTO_ACAP -> <<"a","1"," ","S","T","A","R","T","T","L","S","\r","\n">>
      [] proto = PROTO_XMPP -> <<"<","s","t","a","r","t","t","l","s"," ","x","m","l","n","s","=","'","u","r","n",":","i","e","t","f",":","p","a","r","a","m","s",":","x","m","l",":","n","s",":","x","m","p","p","-","t","l","s","'","/",">">>
      [] OTHER -> <<"S","T","A","R","T","T","L","S","\r","\n">>

\* a turn in which the client of a refusal vector sent the command
refused(t) ==
    /\ t.mangle \in refusal_vectors
    /\ t.leg = "inbound"
    /\ t.data = tls_command(PROTO_ID(t.mangle))

has_sentinel(proto, data) ==
    CASE proto = PROTO_SMTP -> In(<<"m","a","i","l"," ","f","r","o","m">>, lower(data))
      [] proto = PROTO_POP3 ->
            In(<<"l","i","s","t">>, lower(data)) \/ In(<<"u","s","e","r"," ">>, lower(data))
            \/ In(<<"p","a","s","s"," ">>, lower(data))
      [] proto = PROTO_IMAP -> In(<<" ","L","O","G","I","N"," ">>, data)
      [] proto = PROTO_FTP -> In(<<"U","S","E","R"," ">>, data)
      [] proto = PROTO_NNTP -> In(<<"G","R","O","U","P"," ">>, data)
      [] proto = PROTO_XMPP ->
            In(<<"<","/","a","u","t","h",">">>, lower(data)) \/ In(<<"<","q","u","e","r","y">>, lower(data))
            \/ In(<<"<","i","q">>, lower(data)) \/ In(<<"<","u","s","e","r","n","a","m","e">>, lower(data))
      [] proto = PROTO_ACAP -> In(<<" ","A","U","T","H","E","N","T","I","C","A","T","E"," ">>, data)
      [] proto = PROTO_IRC ->
            In(<<"a","u","t","h","e","n","t","i","c","a","t","e"," ">>, lower(data)) \/ In(<<"p","r","i","v","m","s","g"," ">>, lower(data))
            \/ In(<<"p","r","o","t","o","c","t","l"," ">>, lower(data))
      [] OTHER -> FALSE

\* the vector performed its strip step in turn t: a trigger matched and the
\* vector returned
strip_step(t) ==
    /\ t.mangle # None
    /\ t.exc = None
    /\ IF t.leg = "inbound" THEN client_trigger(t.mangle, t)
       ELSE server_trigger(t.mangle, t)

\* the client sent a sentinel in the turn at st, after a strip step of the
\* vector in the same session
sentinel_after_strip(st) ==
    /\ turn_at(st).leg = "inbound"
    /\ turn_at(st).mangle # None
    /\ has_sentinel(PROTO_ID(turn_at(st).mangle), turn_at(st).data)
    /\ \E earlier \in turns :
          /\ earlier[1] = st[1]
          /\ earlier[2] < st[2]
          /\ strip_step(turn_at(earlier))

result_of(sid) == results[get_result(results, sid)].result

\* C10: for every vector, once the vector has performed its strip step in a
\* session and the client afterwards sends a chunk with one of the
\* sentinels of the protocol, the session's result record is vulnerable.
C10_SentinelMarksVulnerable ==
    \A st \in turns : sentinel_after_strip(st) => result_of(st[1]) = "True"

\* the chunk carries the name of the TLS-initiation command of the protocol
carries_tls_command(proto, data) ==
    CASE proto = PROTO_POP3 -> In(<<"s","t","l","s">>, lower(data))
      [] proto = PROTO_FTP -> In(<<"a","u","t","h"," ","t","l","s">>, lower(data))
      [] OTHER -> In(<<"s","t","a","r","t","t","l","s">>, lower(data))

\* the same property for the vectors other than XMPP.UntrustedIntercept
\* and the chunks that do not carry the TLS command together with the
\* sentinel (it holds)
SentinelMarksVulnerable_ButXMPP ==
    \A st \in turns :
        /\ sentinel_after_strip(st)
        /\ turn_at(st).mangle # "XMPP.UntrustedIntercept"
        /\ ~carries_tls_command(PROTO_ID(turn_at(st).mangle), turn_at(st).data)
        => result_of(st[1]) = "True"

(***************************************************************************)
(* Properties of the result records and of the session loop.               *)
(***************************************************************************)
\* the Sessions whose result record says vulnerable
vulnerable_sessions ==
    {results[i].session : i \in {j \in 1..Len(results) : results[j].result = "True"}}

\* C11: a session's result is vulnerable only if a chunk sent by the client
\* and containing a sentinel was handled after the strip step of the vector
\* (hidden advertisement, injected refusal or intercept) in that session;
\* in every other case the result stays pending.
C11_VulnerableOnlyAfterStrip ==
    \A sid \in vulnerable_sessions :
        \E st \in turns : st[1] = sid /\ sentinel_after_strip(st)

\* the weaker property that a vulnerable result follows a client chunk with
\* a sentinel, whether or not a strip step came before it, for the vectors
\* other than those of IRC
VulnerableOnlyOnClientSentinel_ButIRC ==
    \A sid \in vulnerable_sessions :
        PROTO_ID(session_to_mangle[sid]) # PROTO_IRC =>
            \E st \in turns :
                /\ st[1] = sid
                /\ turn_at(st).leg = "inbound"
                /\ has_sentinel(PROTO_ID(session_to_mangle[sid]), turn_at(st).data)

peer_sockets_of(sid) == {sock(sid, "inbound"), sock(sid, "outbound")}

\* the session of a zero-length read is closed: both sockets closed and out
\* of the readiness set, no mangler called, nothing written to either leg
\* (it holds)
ZeroLengthReadCloses_Session ==
    \A st \in turns :
        LET t == turn_at(st)
        IN  Len(t.data) = 0 =>
              /\ t.exc = "SessionTerminatedException"
              /\ t.mangle = None
              /\ t.ops = <<>>
              /\ t.out = NoData
              /\ st[2] = Len(wire[st[1]])
              /\ objs[st[1]].inbound.closed /\ objs[st[1]].outbound.closed
              /\ objs[st[1]].inbound.sndbuf = t.before.inbound.sndbuf
              /\ objs[st[1]].outbound.sndbuf = t.before.outbound.sndbuf
              /\ input_list \cap peer_sockets_of(st[1]) = {}

\* C12: a zero-length read on either leg of a session closes the session:
\* both sockets are closed and removed from the readiness set, the chunk is
\* passed to no mangler, nothing is forwarded, and the main loop goes on
\* serving the other sessions and the listener: it is not ended by a read
\* on a socket that the close has closed.
C12_ZeroLengthReadCloses ==
    /\ ZeroLengthReadCloses_Session
    /\ (\E st \in turns : Len(turn_at(st).data) = 0) =>
          ~(pc = "raised" /\ raised = "socket.error")

\* the turns in which a vector raised ProtocolViolationException
violations == {st \in turns : turn_at(st).exc = "ProtocolViolationException"}

\* what main_loop does do on a ProtocolViolationException: the two sockets
\* of the session leave the readiness set, nothing is forwarded (it holds)
ProtocolViolation_LeavesReadinessSet ==
    \A st \in violations :
        /\ input_list \cap peer_sockets_of(st[1]) = {}
        /\ turn_at(st).out = NoData

\* C13: when a vector raises ProtocolViolation while a chunk of session S
\* is handled, S is closed (both sockets closed and removed from the
\* readiness set) and the error is handled inside the main loop: it does
\* not propagate out of main_loop, which goes on serving the other
\* sessions.
C13_ProtocolViolationHandled ==
    \A st \in violations :
        /\ objs[st[1]].inbound.closed /\ objs[st[1]].outbound.closed
        /\ input_list \cap peer_sockets_of(st[1]) = {}
        /\ pc = "main_loop"
        /\ raised = None

(***************************************************************************)
(* Properties of ProtocolDetect.                                           *)
(***************************************************************************)
\* the protocol the table maps a target port to
port_table ==
    {<<25, PROTO_SMTP>>, <<110, PROTO_POP3>>, <<143, PROTO_IMAP>>,
     <<21, PROTO_FTP>>, <<119, PROTO_NNTP>>, <<5222, PROTO_XMPP>>,
     <<675, PROTO_ACAP>>, <<6667, PROTO_IRC>>}

\* the ProtocolDetect a Session was left with by the turn at st
protocol_after(st) ==
    IF st[2] < Len(wire[st[1]]) THEN wire[st[1]][st[2] + 1].before.protocol
    ELSE objs[st[1]].protocol

\* C14: when the target port is one of 25, 110, 143, 21, 119, 5222, 675,
\* 6667 the protocol of every session is the mapped protocol from
\* construction on, and no chunk changes it or is recorded by the detector,
\* also when the chunk has keywords of another protocol.
C14_PortFixesProtocol ==
    \A entry \in port_table :
        target[2] = entry[1] =>
            /\ \A sid \in 1..Len(objs) :
                  objs[sid].protocol = [protocol_id |-> entry[2], history |-> <<>>]
            /\ \A st \in turns :
                  /\ turn_at(st).before.protocol
                        = [protocol_id |-> entry[2], history |-> <<>>]
                  /\ protocol_after(st) = turn_at(st).before.protocol

\* a session to port 143 has handled a chunk with a keyword of SMTP and a
\* further chunk after it
C14_Witness ==
    \E st \in turns :
        /\ target[2] = 143
        /\ In(<<"s","t","a","r","t","t","l","s">>, lower(turn_at(st).data))
        /\ st[2] < Len(wire[st[1]])
        /\ objs[st[1]].protocol.protocol_id = PROTO_IMAP

\* the keyword lists in the order SMTP, XMPP, IMAP, FTP
keyword_order ==
    <<[proto |-> PROTO_SMTP,
       keywords |-> {<<"e","h","l","o">>, <<"h","e","l","o">>, <<"s","t","a","r","t","t","l","s">>, <<"r","c","p","t"," ","t","o",":">>, <<"m","a","i","l"," ","f","r","o","m",":">>}],
      [proto |-> PROTO_XMPP, keywords |-> {<<"x","m","p","p">>}],
      [proto |-> PROTO_IMAP, keywords |-> {<<"."," ","c","a","p","a","b","i","l","i","t","y">>}],
      [proto |-> PROTO_FTP, keywords |-> {<<"a","u","t","h"," ","t","l","s">>}]>>

\* the positions of keyword_order of which the chunk contains a keyword
matching(data) ==
    {i \in 1..Len(keyword_order) :
        \E k \in keyword_order[i].keywords : In(k, lower(data))}

first_match(data) ==
    IF matching(data) = {} THEN PROTO_None
    ELSE keyword_order[CHOOSE i \in matching(data) :
                          \A j \in matching(data) : i <= j].proto

\* C15: keyword detection is monotonic and first-match-wins: once
\* protocol_id is set no chunk from either direction changes it; a chunk
\* that arrives while it is unset sets it to the first protocol, in the
\* order SMTP, XMPP, IMAP, FTP, of which the chunk contains a keyword, and
\* leaves it unset if the chunk contains no keyword.
C15_FirstMatchMonotonic ==
    \A st \in turns :
        LET before == turn_at(st).before.protocol.protocol_id
            after == protocol_after(st).protocol_id
        IN  /\ before # PROTO_None => after = before
            /\ before = PROTO_None => after = first_match(turn_at(st).data)

\* a session stayed undetected over a chunk without keyword, became XMPP on
\* a chunk with keywords of XMPP and IMAP, and stayed XMPP over a chunk of
\* the server with a keyword of SMTP
C15_Witness ==
    \E sid \in 1..Len(wire) :
        /\ Len(wire[sid]) = 3
        /\ matching(wire[sid][1].data) = {}
        /\ wire[sid][2].before.protocol.protocol_id = PROTO_None
        /\ matching(wire[sid][2].data) = {2, 3}
        /\ wire[sid][3].before.protocol.protocol_id = PROTO_XMPP
        /\ wire[sid][3].leg = "outbound"
        /\ matching(wire[sid][3].data) = {1}
        /\ objs[sid].protocol.protocol_id = PROTO_XMPP

(***************************************************************************)
(* Properties of the order in which a session's chunks are handled.        *)
(***************************************************************************)
\* the Session as the turn at st left it: as the next chunk of the session
\* found it, or as it is now
session_after(st) ==
    IF st[2] < Len(wire[st[1]]) THEN wire[st[1]][st[2] + 1].before
    ELSE objs[st[1]]

\* what turn t wrote to a leg, in the order of writing: what the vector
\* sent itself, then the chunk the session loop forwarded
forwarded_to(t, leg) ==
    IF t.out # NoData /\ leg = (IF t.leg = "inbound" THEN "outbound" ELSE "inbound")
    THEN <<t.out>> ELSE <<>>
sent_by_vector(t, leg) ==
    IF ops_of(t.ops, "sendall", leg) = <<>> THEN <<>>
    ELSE <<ops_of(t.ops, "sendall", leg)[Len(ops_of(t.ops, "sendall", leg))].data>>
turn_writes(t, leg) == sent_by_vector(t, leg) \o forwarded_to(t, leg)

\* a turn in which the vector answered the client's command itself
injecting(t) == t.leg = "inbound" /\ sent_by_vector(t, "inbound") # <<>>

\* C16: within one session each chunk is fully handled (mangled, then
\* forwarded or suppressed) before the session loop reads the next chunk:
\* when the next chunk is read, and at any time after the last one, each
\* leg has as its last write the last write of the turn before (the
\* forwarded chunk after what the vector sent), or is as that turn found it
\* if the turn wrote nothing to the leg.  So forwarded chunks follow each
\* other in the order of arrival, and a response injected for a client
\* command is on the client's leg before any later server chunk is.
C16_ArrivalOrder ==
    \A st \in turns :
        LET t == turn_at(st)
        IN  /\ \A leg \in {"inbound", "outbound"} :
                  session_after(st)[leg].sndbuf =
                      IF turn_writes(t, leg) = <<>> THEN t.before[leg].sndbuf
                      ELSE turn_writes(t, leg)[Len(turn_writes(t, leg))]
            /\ session_after(st)[t.leg].recvbuf = t.data
                  \/ ops_of(t.ops, "recv", t.leg) # <<>>
            /\ \A later \in turns :
                  /\ later[1] = st[1] /\ later[2] > st[2]
                  /\ injecting(t) /\ t.out = NoData
                  /\ turn_at(later).leg = "outbound"
                  => \E k \in (st[2] + 1)..later[2] :
                        /\ wire[st[1]][k].before.inbound.sndbuf
                              = sent_by_vector(t, "inbound")[1]
                        /\ \A j \in (st[2] + 1)..(k - 1) :
                              forwarded_to(wire[st[1]][j], "inbound") = <<>>

\* the client's command was answered by the vector, then a chunk of the
\* server was forwarded to the client, then a chunk of the client to the
\* server
C16_Witness ==
    \E sid \in 1..Len(wire) :
        /\ Len(wire[sid]) = 3
        /\ injecting(wire[sid][1]) /\ wire[sid][1].out = NoData
        /\ wire[sid][2].leg = "outbound" /\ wire[sid][2].out # NoData
        /\ wire[sid][2].before.inbound.sndbuf = sent_by_vector(wire[sid][1], "inbound")[1]
        /\ wire[sid][3].leg = "inbound" /\ wire[sid][3].out # NoData
        /\ objs[sid].inbound.sndbuf = wire[sid][2].out
        /\ objs[sid].outbound.sndbuf = wire[sid][3].out

(***************************************************************************)
(* Properties of the error paths of the vectors.                           *)
(***************************************************************************)
\* the check an UntrustedIntercept vector of the protocol makes of the
\* upstream response to the command it forwarded
passes_check(proto, command, resp) ==
    CASE proto = PROTO_SMTP -> In(<<"2","2","0">>, resp)
      [] proto = PROTO_POP3 -> In(<<"+","O","K">>, resp)
      [] proto = PROTO_IMAP -> In(strip(split1head(command, <<" ">>)) \o <<" ","O","K">>, resp)
      [] proto = PROTO_FTP -> startswith(resp, <<"2","3","4">>)
      [] proto = PROTO_NNTP -> startswith(resp, <<"3","8","2">>)
      [] proto = PROTO_XMPP -> startswith(resp, <<"<","p","r","o","c","e","e","d"," ">>)
      [] proto = PROTO_ACAP -> In(<<" ","O","K"," ">>, resp)
      [] proto = PROTO_IRC -> In(<<" ","6","7","0"," ">>, resp)
      [] OTHER -> FALSE

\* the turns in which an UntrustedIntercept vector read an upstream
\* response that fails its check
failed_checks ==
    {st \in turns :
        /\ intercepting(turn_at(st))
        /\ ops_of(turn_at(st).ops, "recv", "outbound") # <<>>
        /\ ~passes_check(PROTO_ID(turn_at(st).mangle), turn_at(st).data,
                         ops_of(turn_at(st).ops, "recv", "outbound")[1].data)}

\* C17: in every UntrustedIntercept vector, if the upstream response to the
\* forwarded TLS-initiation command fails the vector's check,
\* ProtocolViolation is raised and the client-role handshake on the
\* outbound leg is never performed, while the inbound leg has already been
\* upgraded to the TLS server role.
C17_FailedCheckRaises ==
    \A st \in failed_checks :
        LET t == turn_at(st)
        IN  /\ t.exc = "ProtocolViolationException"
            /\ ops_of(t.ops, "wrap", "outbound") = <<>>
            /\ ops_of(t.ops, "wrap", "inbound") = <<op_wrap("inbound", "server")>>
            /\ roles_after(st) = <<"server", roles(t.before)[2]>>
            /\ t.out = NoData

\* the FTP intercept read a response that has 234 but not at its start
C17_Witness ==
    \E st \in failed_checks :
        /\ turn_at(st).mangle = "FTP.UntrustedIntercept"
        /\ In(<<"2","3","4">>, ops_of(turn_at(st).ops, "recv", "outbound")[1].data)
        /\ roles(turn_at(st).before) = <<None, None>>
        /\ roles_after(st) = <<"server", None>>

\* the turns in which the client of a StripFromCapabilities vector sent the
\* TLS-initiation command, alone or followed by more in the same chunk
commands_after_strip ==
    {st \in turns :
        /\ turn_at(st).mangle \in StripFromCapabilities_vectors
        /\ turn_at(st).leg = "inbound"
        /\ startswith(turn_at(st).data, tls_command(PROTO_ID(turn_at(st).mangle)))}

\* the vector called set_result in a turn of the session before the turn at st
marked_before(st) ==
    \E k \in 1..(st[2] - 1) :
        \E i \in 1..Len(wire[st[1]][k].ops) : wire[st[1]][k].ops[i] = op_set_result

\* C18: for every StripFromCapabilities vector, if the client sends the
\* TLS-initiation command of the protocol, ProtocolViolation is raised, the
\* command is never forwarded upstream, and the result of the session is
\* not changed by that chunk: it is what the chunks before made it, also
\* when the chunk with the command contains a sentinel.
C18_CommandAfterStripRaises ==
    \A st \in commands_after_strip :
        LET t == turn_at(st)
        IN  /\ t.exc = "ProtocolViolationException"
            /\ t.ops = <<>>
            /\ t.out = NoData
            /\ session_after(st).outbound.sndbuf = t.before.outbound.sndbuf
            /\ result_of(st[1]) = "True" <=> marked_before(st)

\* the client of SMTP.StripFromCapabilities sent STARTTLS and MAIL FROM in
\* one chunk, after the advertisement was stripped, and the result is
\* pending
C18_Witness ==
    \E st \in commands_after_strip :
        /\ turn_at(st).mangle = "SMTP.StripFromCapabilities"
        /\ has_sentinel(PROTO_SMTP, turn_at(st).data)
        /\ \E k \in 1..(st[2] - 1) :
              server_trigger("SMTP.StripFromCapabilities", wire[st[1]][k])
        /\ result_of(st[1]) = None

(***************************************************************************)
(* Properties of the rewriting of SMTP capability blocks.                  *)
(***************************************************************************)
\* the most recent chunk sent upstream before turn t was an EHLO or HELO
after_ehlo_or_helo(t) ==
    \/ In(<<"e","h","l","o">>, lower(t.before.outbound.sndbuf))
    \/ In(<<"h","e","l","o">>, lower(t.before.outbound.sndbuf))

block_lines(data) == split(strip(data), <<"\r","\n">>)
kept_lines(data) == SelectSeq(block_lines(data), LAMBDA f : ~In(<<"S","T","A","R","T","T","L","S">>, f))

\* the turns in which SMTP.StripFromCapabilities received a response to
\* EHLO or HELO that is a block of 250 lines
ehlo_blocks ==
    {st \in turns :
        /\ turn_at(st).mangle = "SMTP.StripFromCapabilities"
        /\ turn_at(st).leg = "outbound"
        /\ after_ehlo_or_helo(turn_at(st))
        /\ \A i \in 1..Len(block_lines(turn_at(st).data)) :
              startswith(block_lines(turn_at(st).data)[i], <<"2","5","0">>)}

\* what is forwarded for the block of turn t is the lines of kept, in
\* order, the last one in terminator form
forwards_lines(t, kept) ==
    /\ t.exc = None
    /\ IF kept = <<>> THEN t.out \in {NoData, <<>>, <<"\r","\n">>}
       ELSE /\ t.out # NoData
            /\ endswith(t.out, <<"\r","\n">>)
            /\ Len(block_lines(t.out)) = Len(kept)
            /\ \A i \in 1..(Len(kept) - 1) : block_lines(t.out)[i] = kept[i]
            /\ startswith(block_lines(t.out)[Len(kept)], <<"2","5","0"," ">>)
            /\ SubSeq(block_lines(t.out)[Len(kept)], 5, Len(kept[Len(kept)]))
                  = SubSeq(kept[Len(kept)], 5, Len(kept[Len(kept)]))

\* C19: SMTP.StripFromCapabilities forwards, for every EHLO/HELO response
\* block of CRLF-separated 250 lines, exactly the lines of the block that
\* do not contain STARTTLS, in their order, the last one in terminator form
\* (250 followed by a space); also when the STARTTLS line was the last line
\* of the block and when every line of the block contains STARTTLS.
C19_StrippedBlock ==
    \A st \in ehlo_blocks :
        forwards_lines(turn_at(st), kept_lines(turn_at(st).data))

\* the same property for the blocks of which a line remains (it holds)
StrippedBlock_WithRemainingLine ==
    \A st \in ehlo_blocks :
        kept_lines(turn_at(st).data) # <<>> =>
            forwards_lines(turn_at(st), kept_lines(turn_at(st).data))

\* a block whose last line was the STARTTLS line has been rewritten
StrippedBlock_LastLine ==
    \E st \in ehlo_blocks :
        /\ turn_at(st).data = <<"2","5","0","-","S","I","Z","E","\r","\n","2","5","0"," ","S","T","A","R","T","T","L","S","\r","\n">>
        /\ turn_at(st).out = <<"2","5","0"," ","S","I","Z","E","\r","\n">>

\* the turns in which one of the two vectors that rewrite the EHLO response
\* handled a chunk of the server
ehlo_rewriters ==
    {st \in turns :
        /\ turn_at(st).mangle \in {"SMTP.StripFromCapabilities",
                                   "SMTP.StripWithInvalidResponseCode"}
        /\ turn_at(st).leg = "outbound"}

\* the chunk is an EHLO or HELO command
ehlo_command(data) ==
    startswith(lower(data), <<"e","h","l","o">>) \/ startswith(lower(data), <<"h","e","l","o">>)

\* C20: under SMTP.StripFromCapabilities and
\* SMTP.StripWithInvalidResponseCode a server chunk is rewritten only if the
\* most recent chunk sent upstream in the session was an EHLO or HELO
\* command; a server chunk, with 250 or not, that answers any other
\* forwarded command is forwarded unchanged.
C20_RewrittenOnlyAfterEhlo ==
    \A st \in ehlo_rewriters :
        ehlo_command(turn_at(st).before.outbound.sndbuf)
        \/ turn_at(st).out = turn_at(st).data

\* the same property for the test the vectors make, that the most recent
\* chunk sent upstream has ehlo or helo somewhere in it (it holds)
RewrittenOnlyAfterEhloSubstring ==
    \A st \in ehlo_rewriters :
        after_ehlo_or_helo(turn_at(st)) \/ turn_at(st).out = turn_at(st).data

\* the response to a MAIL FROM without ehlo or helo in it, a chunk with 250,
\* was forwarded unchanged
RewrittenOnlyAfterEhlo_MailFrom ==
    \E st \in ehlo_rewriters :
        /\ turn_at(st).before.outbound.sndbuf = <<"M","A","I","L"," ","F","R","O","M",":","<","a","@","b",">","\r","\n">>
        /\ turn_at(st).data = <<"2","5","0","-","S","I","Z","E","\r","\n","2","5","0"," ","S","T","A","R","T","T","L","S","\r","\n">>
        /\ turn_at(st).out = turn_at(st).data

(***************************************************************************)
(* Properties of single vectors of IRC, XMPP and SMTP.                     *)
(***************************************************************************)
\* the turns in which IRC.StripFromCapabilities handled a chunk of the server
irc_server_turns ==
    {st \in turns :
        /\ turn_at(st).mangle = "IRC.StripFromCapabilities"
        /\ turn_at(st).leg = "outbound"}

\* the chunk takes the first branch of the function: it has " cap " and " tls"
cap_tls(data) == In(<<" ","c","a","p"," ">>, lower(data)) /\ In(<<" ","t","l","s">>, lower(data))

\* C21: IRC.StripFromCapabilities.mangle_server_data suppresses the chunk
\* only on its first branch, for server chunks with both " cap " and
\* " tls"; every other server chunk is returned unchanged and forwarded to
\* the client.
C21_SuppressedOnlyOnCapTls ==
    \A st \in irc_server_turns :
        IF cap_tls(turn_at(st).data) THEN turn_at(st).out = NoData
        ELSE turn_at(st).out = turn_at(st).data

\* what the function does: every chunk of the server is suppressed, and
\* nothing reaches the client (it holds)
IRC_EveryServerChunkSuppressed ==
    \A st \in irc_server_turns :
        /\ turn_at(st).out = NoData
        /\ session_after(st).inbound.sndbuf = turn_at(st).before.inbound.sndbuf

\* the first <starttls> element of a chunk: where it starts, where its
\* opening tag ends, whether that tag closes the element itself, and where
\* the element ends (positions as counts of characters before)
element_start(data) == find(data, <<"<","s","t","a","r","t","t","l","s">>, 0)
tag_end(data) == find(data, <<">">>, element_start(data)) + 1
self_closing(data) == data[tag_end(data) - 1] = "/"
element_end(data) ==
    IF self_closing(data) THEN tag_end(data)
    ELSE find(data, <<"<","/","s","t","a","r","t","t","l","s",">">>, element_start(data)) + Len(<<"<","/","s","t","a","r","t","t","l","s",">">>)
element(data) == SubSeq(data, element_start(data) + 1, element_end(data))
without_element(data) ==
    SubSeq(data, 1, element_start(data)) \o SubSeq(data, element_end(data) + 1, Len(data))
marked_required(data) == In(<<"r","e","q","u","i","r","e","d">>, element(data))

\* the turns in which XMPP.StripInboundTLS handled a chunk of the server
\* that carries a <starttls> element
starttls_offers ==
    {st \in turns :
        /\ turn_at(st).mangle = "XMPP.StripInboundTLS"
        /\ turn_at(st).leg = "outbound"
        /\ In(<<"<","s","t","a","r","t","t","l","s">>, turn_at(st).data)}

\* what the claim says of the turn at st
strips_inbound_tls(st) ==
    LET t == turn_at(st)
    IN  IF marked_required(t.data)
        THEN /\ Len(t.ops) >= 2
             /\ t.ops[1] = op_sendall("outbound",
                                     <<"<","s","t","a","r","t","t","l","s"," ","x","m","l","n","s","=","'","u","r","n",":","i","e","t","f",":","p","a","r","a","m","s",":","x","m","l",":","n","s",":","x","m","p","p","-","t","l","s","'","/",">">>)
             /\ t.ops[2].op = "recv" /\ t.ops[2].leg = "outbound"
             /\ ops_of(t.ops, "wrap", "inbound") = <<>>
             /\ roles_after(st)[1] = roles(t.before)[1]
             /\ ~startswith(t.ops[2].data, <<"<","p","r","o","c","e","e","d"," ">>) =>
                   /\ t.exc = "ProtocolViolationException"
                   /\ ops_of(t.ops, "wrap", "outbound") = <<>>
             /\ t.exc = None =>
                   /\ ops_of(t.ops, "wrap", "outbound") = <<op_wrap("outbound", "client")>>
                   /\ roles_after(st)[2] = "client"
                   /\ t.out = without_element(t.data)
             /\ t.exc # None => t.out = NoData
        ELSE /\ t.exc = None
             /\ t.ops = <<>>
             /\ t.out = without_element(t.data)
             /\ roles_after(st) = roles(t.before)
             /\ session_after(st).outbound.sndbuf = t.before.outbound.sndbuf

\* C22: XMPP.StripInboundTLS: when a server chunk carries a <starttls>
\* element marked required, the proxy sends its own <starttls/> upstream,
\* requires the response to begin with "<proceed ", upgrades only the
\* outbound leg, as TLS client, leaves the inbound leg in cleartext and
\* forwards the chunk without the element; when the element is not marked
\* required it is removed, neither leg is upgraded and nothing is sent
\* upstream.
C22_StripInboundTLS ==
    \A st \in starttls_offers : strips_inbound_tls(st)

\* the same property for the elements that end with </starttls> (it holds)
StripInboundTLS_ClosedElement ==
    \A st \in starttls_offers :
        ~self_closing(turn_at(st).data) => strips_inbound_tls(st)

\* an element marked required led to the upgrade of the outbound leg alone
StripInboundTLS_Required ==
    \E st \in starttls_offers :
        /\ marked_required(turn_at(st).data)
        /\ turn_at(st).exc = None
        /\ roles_after(st) = <<None, "client">>

\* the turns in which SMTP.InjectCommand caught the TLS-EOF error of the
\* handshake toward the server: it closed the session after having read the
\* response of the server
tls_eof_turns ==
    {st \in turns :
        /\ turn_at(st).mangle = "SMTP.InjectCommand"
        /\ ops_of(turn_at(st).ops, "recv", "outbound") # <<>>
        /\ \E i \in 1..Len(turn_at(st).ops) : turn_at(st).ops[i] = op_close}

\* the session is closed as on a normal termination: both sockets closed
\* and out of the readiness set, nothing forwarded for the chunk, the
\* outbound leg not upgraded (it holds)
InjectCommand_ClosesSession ==
    \A st \in tls_eof_turns :
        /\ turn_at(st).exc = "SessionTerminatedException"
        /\ turn_at(st).out = NoData
        /\ st[2] = Len(wire[st[1]])
        /\ objs[st[1]].inbound.closed /\ objs[st[1]].outbound.closed
        /\ roles(objs[st[1]]) = <<"server", roles(turn_at(st).before)[2]>>
        /\ input_list \cap peer_sockets_of(st[1]) = {}

\* C23: SMTP.InjectCommand: if the client-role TLS handshake toward the
\* upstream server fails with a TLS-EOF error, the session is closed as a
\* normal termination: both sockets are closed and removed from the
\* readiness set, nothing further is forwarded for that chunk, and the main
\* loop continues.
C23_TlsEofClosesCleanly ==
    /\ InjectCommand_ClosesSession
    /\ tls_eof_turns # {} => pc = "main_loop" /\ raised = None

(***************************************************************************)
(* Further properties of the dispatcher.                                   *)
(***************************************************************************)
\* no vector is registered for the protocol the detector knew when the
\* chunk of the turn at st was handed to the dispatcher (none, if the
\* protocol was undetected)
without_vector(st) ==
    \A i \in 1..Len(env.vectors) :
        PROTO_ID(env.vectors[i]) # protocol_after(st).protocol_id

\* the Sessions of which a chunk was handed to a vector
mangled_sessions == {st[1] : st \in {s \in turns : turn_at(s).mangle # None}}

\* C24: while the protocol of a session is undetected, or no vector is
\* registered for the detected protocol, get_mangle returns none without
\* appending a result record or binding the session, and every chunk of the
\* session is forwarded unchanged in either direction; a session of which
\* no chunk was handed to a vector has no result record.
C24_NoVectorNoRecord ==
    /\ \A st \in turns :
          without_vector(st) /\ Len(turn_at(st).data) > 0 =>
              /\ turn_at(st).mangle = None
              /\ turn_at(st).exc = None
              /\ turn_at(st).ops = <<>>
              /\ turn_at(st).out = turn_at(st).data
              /\ session_after(st)[IF turn_at(st).leg = "inbound" THEN "outbound"
                                   ELSE "inbound"].sndbuf = turn_at(st).data
    /\ \A sid \in 1..Len(wire) :
          sid \notin mangled_sessions =>
              /\ \A i \in 1..Len(results) : results[i].session # sid
              /\ sid \notin DOMAIN session_to_mangle
    /\ Len(results) = Cardinality(mangled_sessions)

\* a session stayed undetected over a first chunk, was detected as IMAP,
\* for which no vector is registered, on a second, and was closed; both
\* chunks were forwarded and there is no result record
C24_Witness ==
    \E sid \in 1..Len(wire) :
        /\ Len(wire[sid]) = 3
        /\ wire[sid][1].leg = "outbound"
        /\ wire[sid][2].before.protocol.protocol_id = PROTO_None
        /\ wire[sid][3].before.protocol.protocol_id = PROTO_IMAP
        /\ wire[sid][2].out = wire[sid][2].data
        /\ Len(wire[sid][3].data) = 0
        /\ objs[sid].inbound.closed
        /\ results = <<>>

(***************************************************************************)
(* Properties of the TcpSockBuff of a Session.                             *)
(***************************************************************************)
\* the handshakes of a turn: its ssl_wrap_socket* operations
handshakes(t) == SelectSeq(t.ops, LAMBDA o : o.op = "wrap")

\* the turns that perform a handshake on a leg that an earlier turn of
\* the Session has already upgraded
second_handshakes ==
    {st \in turns :
        \E i \in 1..Len(handshakes(turn_at(st))) :
            turn_at(st).before[handshakes(turn_at(st))[i].leg].socket_ssl # None}

\* C25: each TcpSockBuff is upgraded to TLS at most once per role during a
\* session: once an UntrustedIntercept has completed, a further client
\* chunk with the TLS-initiation keyword triggers no second server-role
\* handshake on the inbound leg and no second client-role handshake on the
\* outbound leg.
C25_UpgradedOncePerRole == second_handshakes = {}

\* (it holds) a leg keeps its role: the inbound leg is only ever upgraded
\* to the server role and the outbound leg to the client role, and within
\* one turn each leg is upgraded at most once
OneRolePerLeg ==
    \A st \in turns :
        LET hs == handshakes(turn_at(st))
        IN  /\ \A i \in 1..Len(hs) :
                  hs[i].data = <<IF hs[i].leg = "inbound" THEN "server" ELSE "client">>
            /\ \A i, j \in 1..Len(hs) : hs[i].leg = hs[j].leg => i = j

\* TcpSockBuff.recv, send and sendall: the endpoint the call goes to, the
\* SSL object once socket_ssl is set (sendall then goes through send), the
\* plain socket before
endpoint(buff) == IF buff.socket_ssl # None THEN "socket_ssl" ELSE "socket"

\* Session.get_peer_sockets and Session.close name the socket field of the
\* two TcpSockBuff, whatever socket_ssl is; so do the members of input_list
\* and the tests of notify_read
get_peer_sockets(session) ==
    {[leg |-> leg, endpoint |-> "socket",
      upgraded |-> session[leg].socket_ssl # None] :
        leg \in {"inbound", "outbound"}}

\* the reads, writes and closes of a turn, each with the endpoint it went
\* to and whether its TcpSockBuff had been upgraded before
uses(t) ==
    LET read == [t.before EXCEPT ![t.leg].recvbuf = t.data]
        at(i) == apply_ops(read, SubSeq(t.ops, 1, i))
        use(s, o) ==
            [op |-> o.op, leg |-> o.leg, endpoint |-> endpoint(s[o.leg]),
             upgraded |-> s[o.leg].socket_ssl # None]
        closing(s) ==
            {[op |-> "close", leg |-> u.leg, endpoint |-> u.endpoint,
              upgraded |-> u.upgraded] : u \in get_peer_sockets(s)}
    IN  {use(t.before, op_recv(t.leg, t.data))}
        \cup {use(at(i - 1), t.ops[i]) :
                i \in {j \in 1..Len(t.ops) : t.ops[j].op \in {"sendall", "recv"}}}
        \cup UNION {closing(at(i - 1)) :
                i \in {j \in 1..Len(t.ops) : t.ops[j] = op_close}}
        \cup (IF Len(t.data) = 0 THEN closing(read) ELSE {})
        \cup (IF t.out # NoData
              THEN {use(at(Len(t.ops)), op_sendall(other(t.leg), t.out))}
              ELSE {})

\* the sockets the next select() waits on
waited_on ==
    IF pc = "main_loop" /\ inputready = {}
    THEN UNION {{u \in get_peer_sockets(objs[sessions[sk]]) : u.leg = sk[2]} :
                    sk \in input_list \ {listener}}
    ELSE {}

\* C26: once a TcpSockBuff has been upgraded to TLS, every later recv, send
\* and sendall on it goes through the TLS layer, and the plain socket is
\* used for no further operation of the session: no read, no write, no
\* readiness wait, no close.
C26_PlainEndpointUnused ==
    /\ \A st \in turns : \A u \in uses(turn_at(st)) :
          u.upgraded => u.endpoint = "socket_ssl"
    /\ \A u \in waited_on : u.upgraded => u.endpoint = "socket_ssl"

\* (it holds) the reads and writes of an upgraded TcpSockBuff go through
\* the TLS layer
UpgradedIO_ThroughTLS ==
    \A st \in turns : \A u \in uses(turn_at(st)) :
        u.upgraded /\ u.op \in {"recv", "sendall"} => u.endpoint = "socket_ssl"

\* (it is reached) a Session with both legs upgraded has forwarded a chunk
\* read through the TLS layer of one leg through the TLS layer of the other
UpgradedIO_Forwarded ==
    \E st \in turns :
        /\ roles(turn_at(st).before) = <<"server", "client">>
        /\ turn_at(st).out = turn_at(st).data
        /\ [op |-> "sendall", leg |-> other(turn_at(st).leg),
            endpoint |-> "socket_ssl", upgraded |-> TRUE] \in uses(turn_at(st))

\* (it holds) a close of an upgraded TcpSockBuff closes the plain socket
UpgradedClose_OnPlainSocket ==
    \A st \in turns : \A u \in uses(turn_at(st)) :
        u.op = "close" => u.endpoint = "socket"

\* the recv and sendall calls made on the two TcpSockBuff of a Session
\* through a turn, in the order of the calls: the read of the chunk, the
\* calls of the vector, the forwarding of what the vector returned
calls_of_turn(t) ==
    <<op_recv(t.leg, t.data)>>
    \o SelectSeq(t.ops, LAMBDA o : o.op \in {"sendall", "recv"})
    \o (IF t.out # NoData THEN <<op_sendall(other(t.leg), t.out)>> ELSE <<>>)

RECURSIVE calls_of_log(_)
calls_of_log(log) ==
    IF log = <<>> THEN <<>>
    ELSE calls_of_log(SubSeq(log, 1, Len(log) - 1)) \o calls_of_turn(log[Len(log)])

\* the bytes of the most recent call of one kind on one leg, the empty
\* string of the constructor when there was none
most_recent(calls, op, leg) ==
    LET mine == ops_of(calls, op, leg)
    IN  IF mine = <<>> THEN <<>> ELSE mine[Len(mine)].data

\* C27: after any sequence of recv, send and sendall on a TcpSockBuff, plain
\* or upgraded, recvbuf is what the most recent recv returned and sndbuf
\* is the argument of the most recent send or sendall; neither collects
\* earlier bytes, a send leaves recvbuf alone and a recv leaves sndbuf
\* alone.
C27_LastBuffers ==
    \A sid \in 1..Len(wire) : \A leg \in {"inbound", "outbound"} :
        /\ objs[sid][leg].recvbuf = most_recent(calls_of_log(wire[sid]), "recv", leg)
        /\ objs[sid][leg].sndbuf = most_recent(calls_of_log(wire[sid]), "sendall", leg)

\* a banner was forwarded to the client in the clear, an intercept then
\* upgraded both legs, and a further chunk of the client went through the
\* TLS layers: every buffer has been written twice
C27_Witness ==
    \E sid \in 1..Len(wire) :
        /\ Len(wire[sid]) = 3
        /\ wire[sid][1].leg = "outbound"
        /\ wire[sid][1].out = wire[sid][1].data
        /\ roles(wire[sid][1].before) = <<None, None>>
        /\ intercepting(wire[sid][2])
        /\ roles(wire[sid][3].before) = <<"server", "client">>
        /\ wire[sid][3].leg = "inbound"
        /\ wire[sid][3].out = wire[sid][3].data
        /\ wire[sid][3].data # wire[sid][2].data
        /\ objs[sid].inbound.recvbuf = wire[sid][3].data
        /\ objs[sid].outbound.sndbuf = wire[sid][3].data
        /\ objs[sid].inbound.sndbuf # wire[sid][1].data
        /\ objs[sid].outbound.recvbuf # wire[sid][1].data

(***************************************************************************)
(* Properties of main_loop with several sessions, checked under            *)
(* SpecIntercept and Spec.                                                 *)
(***************************************************************************)
\* a Session is inside an UntrustedIntercept sequence: its last turn
\* injected the acceptance and neither raised nor reached the end of the
\* outbound handshake
inside_intercept(sid) ==
    /\ wire[sid] # <<>>
    /\ LET t == wire[sid][Len(wire[sid])]
       IN  /\ intercepting(t)
           /\ t.exc = None
           /\ ops_of(t.ops, "wrap", "outbound") = <<>>

\* a step in which the Session sid runs an UntrustedIntercept sequence
intercept_step(sid) ==
    /\ sid \in 1..Len(wire)
    /\ Len(wire'[sid]) = Len(wire[sid]) + 1
    /\ intercepting(wire'[sid][Len(wire'[sid])])

\* no chunk of another Session is read, mangled or forwarded and no
\* connection is accepted
others_wait(sid) ==
    /\ Len(objs') = Len(objs)
    /\ Len(wire') = Len(wire)
    /\ sessions' = sessions
    /\ \A o \in (1..Len(wire)) \ {sid} : wire'[o] = wire[o] /\ objs'[o] = objs[o]

\* C28: while one session is inside an UntrustedIntercept sequence, from
\* the injected acceptance to the end of the outbound handshake, the
\* blocking read of the upstream response included, the proxy reads,
\* mangles or forwards no chunk of any other session and accepts no
\* connection: the sequence is run within one handling of one chunk, and
\* no session is left inside it when main_loop goes on.
C28_InterceptBlocksLoop ==
    /\ [](\A sid \in 1..Len(wire) : ~inside_intercept(sid))
    /\ [][\A sid \in 1..Len(wire) : intercept_step(sid) => others_wait(sid)]_vars

\* one session has been intercepted, up to the end of the outbound
\* handshake, while a chunk of another session, reported ready by the same
\* select(), is still waiting to be read
C28_Witness ==
    \E sid, o \in 1..Len(wire) :
        /\ sid # o
        /\ wire[sid] # <<>>
        /\ intercepting(wire[sid][Len(wire[sid])])
        /\ Len(wire[sid][Len(wire[sid])].ops) = Len(intercept_steps)
        /\ sock(o, "inbound") \in inputready
        /\ wire[o] = <<>>
        /\ pc = "main_loop"

same_records(before, after) ==
    \A i \in 1..Len(before) :
        /\ after[i].client = before[i].client
        /\ after[i].session = before[i].session
        /\ after[i].mangle = before[i].mangle

\* the vector that follows that of the last record of the client in rs
rotated(rs, ip) ==
    LET history == SelectSeq(rs, LAMBDA r : r.client = ip)
    IN  IF history = <<>> THEN iteration_order[1]
        ELSE iteration_order[(index(iteration_order, history[Len(history)].mangle)
                              % Len(iteration_order)) + 1]

recorded == {results[i].session : i \in 1..Len(results)}

\* rs2 is rs but for the result field of the records of sid
only_result_of(rs, rs2, sid) ==
    /\ Len(rs2) = Len(rs)
    /\ \A i \in 1..Len(rs) :
          /\ rs2[i].client = rs[i].client
          /\ rs2[i].session = rs[i].session
          /\ rs2[i].mangle = rs[i].mangle
          /\ rs[i].session # sid => rs2[i] = rs[i]

\* a step in which a vector called set_result for the Session sid
set_result_step(sid) ==
    /\ sid \in 1..Len(wire)
    /\ Len(wire'[sid]) = Len(wire[sid]) + 1
    /\ \E i \in 1..Len(wire'[sid][Len(wire'[sid])].ops) :
          wire'[sid][Len(wire'[sid])].ops[i] = op_set_result

\* C30: set_result(session, value) changes only the result field of the
\* record of that session: the client, session and vector fields of the
\* record, the records of the other sessions, the order and the length of
\* the result list and the binding of sessions to vectors are left as they
\* were; and no record is ever removed from the list.
C30_SetResultFrame ==
    /\ [](\A sid \in recorded : \A value \in {"True", "False", None} :
            /\ only_result_of(results, set_result(results, sid, value), sid)
            /\ set_result(results, sid, value)[get_result(results, sid)].result
                  = value)
    /\ [][/\ Len(results') >= Len(results)
          /\ same_records(results, results')
          /\ \A sid \in 1..Len(wire) :
                set_result_step(sid) =>
                    /\ only_result_of(results, SubSeq(results', 1, Len(results)), sid)
                    /\ results'[get_result(results', sid)].result = "True"
                    /\ \A k \in DOMAIN session_to_mangle :
                          /\ k \in DOMAIN session_to_mangle'
                          /\ session_to_mangle'[k] = session_to_mangle[k]]_vars

\* two sessions have a record each, and set_result has marked the record
\* of the second only
C30_Witness ==
    /\ Len(results) = 2
    /\ results[1].session # results[2].session
    /\ results[1].result = None
    /\ results[2].result = "True"
    /\ results[1].mangle = results[2].mangle
    /\ DOMAIN session_to_mangle = {results[1].session, results[2].session}

(***************************************************************************)
(* Properties of the result records and of the tables of the main loop.    *)
(***************************************************************************)
\* C31: the result field of a record only ever is None (pending) or True
\* (vulnerable): nothing writes a value for not vulnerable, and a record
\* that is True stays True for the rest of the run, whatever chunks
\* arrive afterwards.
C31_ResultValues ==
    /\ [](\A i \in 1..Len(results) : results[i].result \in {None, "True"})
    /\ [][\A i \in 1..Len(results) :
            results[i].result = "True" =>
                /\ i <= Len(results')
                /\ results'[i].session = results[i].session
                /\ results'[i].result = "True"]_vars

\* a record was marked, the sentinel command came again and a further
\* chunk of the session was handled: the record is still marked
C31_Witness ==
    \E sid \in 1..Len(wire) :
        /\ Len(wire[sid]) = 3
        /\ wire[sid][1].ops = <<op_set_result>>
        /\ wire[sid][2].ops = <<op_set_result>>
        /\ wire[sid][3].ops = <<>>
        /\ Len(wire[sid][3].data) > 0
        /\ Len(results) = 1
        /\ results[1].session = sid
        /\ results[1].result = "True"

\* the sockets that self.sessions maps to the Session sid
sockets_of(sid) == {sk \in DOMAIN sessions : sessions[sk] = sid}

\* C32: in every state of the main loop, each socket of input_list other
\* than the listener is a key of self.sessions and is mapped to the Session
\* of which it is the inbound or outbound socket, so that the lookup of a
\* ready socket never yields None; every accepted Session has exactly two
\* sockets, and its outbound peer is the configured target.
C32_SocketsMapped ==
    pc = "main_loop" =>
        /\ \A sk \in (input_list \cup inputready) \ {listener} :
              /\ sk \in DOMAIN sessions
              /\ sessions[sk] \in 1..Len(objs)
              /\ sk \in {sock(sessions[sk], "inbound"), sock(sessions[sk], "outbound")}
        /\ \A sid \in 1..Len(objs) :
              /\ sockets_of(sid) = {sock(sid, "inbound"), sock(sid, "outbound")}
              /\ Cardinality(sockets_of(sid)) = 2
              /\ objs[sid].outbound.peer = target
              /\ objs[sid].inbound.peer # objs[sid].outbound.peer

\* three sessions were accepted, one of them has been terminated and the
\* sockets of the two others are in input_list
C32_Witness ==
    /\ pc = "main_loop"
    /\ Len(objs) = 3
    /\ Cardinality(DOMAIN sessions) = 6
    /\ Cardinality(input_list \ {listener}) = 4
    /\ \E sid \in 1..Len(objs) :
          /\ objs[sid].inbound.closed
          /\ sockets_of(sid) \cap input_list = {}

\* a step in which an exception other than SessionTerminatedException
\* leaves main_loop
failing_step == pc = "main_loop" /\ pc' = "raised"

\* the exception that occurred in a failing step: that of the turn it
\* recorded, or the socket.error of a read of a closed socket or of a
\* failed call of the accept branch
occurred ==
    IF \E sid \in 1..Len(wire) : Len(wire'[sid]) > Len(wire[sid])
    THEN {wire'[sid][Len(wire'[sid])].exc :
            sid \in {s \in 1..Len(wire) : Len(wire'[s]) > Len(wire[s])}}
    ELSE {"socket.error"}

\* the Session that was being handled in a failing step, if there was one
affected ==
    IF Len(objs') > Len(objs) THEN {Len(objs')}
    ELSE IF \E sid \in 1..Len(wire) : Len(wire'[sid]) > Len(wire[sid])
    THEN {s \in 1..Len(wire) : Len(wire'[s]) > Len(wire[s])}
    ELSE IF env'.accepts < env.accepts THEN {}
    ELSE {sessions[sk] : sk \in {k \in inputready \ {listener} :
                                    objs[sessions[k]][k[2]].closed}}

\* C33: when an exception other than SessionTerminatedException occurs
\* while a ready socket is handled, main_loop removes the two sockets of
\* the Session from input_list, or the listener when there was no Session
\* yet, and raises that same exception again; the removal does not fail
\* and does not replace the exception.
C33_RemovedAndReraised ==
    [][failing_step =>
        /\ raised' \in occurred
        /\ IF affected = {}
           THEN input_list' = input_list \ {listener}
           ELSE \E sid \in affected :
                   input_list' = input_list \ {<<sid, "inbound">>, <<sid, "outbound">>}]_vars

\* (it holds) the same for the steps in which a Session was bound when the
\* exception occurred
RemovedAndReraised_WithSession ==
    [][failing_step /\ affected # {} =>
        /\ raised' \in occurred
        /\ \E sid \in affected :
              input_list' = input_list \ {<<sid, "inbound">>, <<sid, "outbound">>}]_vars

\* (it is reached) connect() failed for a second Session while the first
\* was open: socket.error left main_loop, the sockets of the first Session
\* are still in input_list
RemovedAndReraised_Connect ==
    /\ pc = "raised"
    /\ raised = "socket.error"
    /\ Len(objs) = 2
    /\ DOMAIN sessions = {<<1, "inbound">>, <<1, "outbound">>}
    /\ input_list = {listener, <<1, "inbound">>, <<1, "outbound">>}

(***************************************************************************)
(* Termination of sessions, checked under SpecLive.                        *)
(***************************************************************************)
\* the Session sid is terminated: both sockets closed and out of input_list
terminated(sid) ==
    /\ objs[sid].inbound.closed
    /\ objs[sid].outbound.closed
    /\ input_list \cap {sock(sid, "inbound"), sock(sid, "outbound")} = {}

\* the ways a Session ends: a peer close, a protocol violation, an I/O
\* error
endings ==
    {"SessionTerminatedException", "ProtocolViolationException", "socket.error",
     "SSLError", "SSLEOFError"}

\* a step takes a socket of the Session sid out of input_list
leaves(sid) ==
    /\ sid \in 1..Len(objs)
    /\ input_list \cap {sock(sid, "inbound"), sock(sid, "outbound")} # {}
    /\ input_list' \cap {sock(sid, "inbound"), sock(sid, "outbound")} = {}

\* (it holds) a Session leaves input_list only by a peer close, a protocol
\* violation or an I/O error
LeavesOnlyByEnding ==
    [][\A sid \in 1..Len(objs) :
          leaves(sid) =>
              \/ /\ Len(wire'[sid]) = Len(wire[sid]) + 1
                 /\ wire'[sid][Len(wire'[sid])].exc \in endings
              \/ /\ wire'[sid] = wire[sid]
                 /\ raised' = "socket.error"]_vars

\* (it holds) the Session of a socket whose peer has closed is eventually
\* terminated, unless an exception ends main_loop before
PeerClose_TerminatesOrRaised ==
    \A sid \in 1..2 : \A leg \in {"inbound", "outbound"} :
        (sock(sid, leg) \in hungup)
            ~> (pc = "raised" \/ (sid \in 1..Len(objs) /\ terminated(sid)))

\* C34: a session leaves input_list only through a peer close, a protocol
\* violation or an I/O error, and whenever a peer of a session closes its
\* connection the session is eventually terminated, both sockets closed
\* and out of input_list, under fair scheduling of main_loop and whatever
\* the other sessions and their upstream servers do.
C34_PeerCloseTerminates ==
    /\ [][\A sid \in 1..Len(objs) :
            leaves(sid) =>
                \/ /\ Len(wire'[sid]) = Len(wire[sid]) + 1
                   /\ wire'[sid][Len(wire'[sid])].exc \in endings
                \/ /\ wire'[sid] = wire[sid]
                   /\ raised' = "socket.error"]_vars
    /\ \A sid \in 1..2 : \A leg \in {"inbound", "outbound"} :
          (sock(sid, leg) \in hungup)
              ~> (sid \in 1..Len(objs) /\ terminated(sid))

\* the sockets of closed Sessions that select() reported ready and that
\* main_loop has still to handle in this round
stale == {sk \in inputready \ {listener} : objs[sessions[sk]][sk[2]].closed}

\* C35: after a session has been terminated no further read is attempted
\* on either of its sockets: when both legs are reported ready in the same
\* round and the first read is of zero length, the second leg is not read
\* in that round, and main_loop does not fail on a closed socket.
C35_NoReadOfClosedSocket ==
    ~(pc = "raised" /\ raised = "socket.error" /\ stale # {})

\* (it holds) a socket of a terminated Session is only ever read in the
\* round in which the Session was terminated: select() is not called
\* with it again
ClosedSocket_NotSelectedAgain ==
    [][inputready = {} /\ inputready' # {} =>
          \A sk \in inputready' \ {listener} : ~objs[sessions[sk]][sk[2]].closed]_vars

\* C40: after a session is terminated its two sockets are removed from
\* self.sessions as well as from input_list, so that after any sequence
\* of accepts and terminations the map has entries for live sessions only
\* and does not grow with the number of sessions served.
C40_MapHoldsLiveSessions ==
    \A sk \in DOMAIN sessions :
        /\ ~objs[sessions[sk]][sk[2]].closed
        /\ pc = "main_loop" => sk \in input_list

\* (it holds) self.sessions keeps the two sockets of every session that
\* was ever accepted
MapHoldsEverySession ==
    /\ [](pc = "main_loop" => Cardinality(DOMAIN sessions) = 2 * Len(objs))
    /\ [][\A sk \in DOMAIN sessions :
            sk \in DOMAIN sessions' /\ sessions'[sk] = sessions[sk]]_vars

\* (it is reached) three sessions were served and terminated, and the map
\* still has their six sockets
MapHoldsEverySession_AllTerminated ==
    /\ pc = "main_loop"
    /\ Len(objs) = 3
    /\ \A sid \in 1..3 : terminated(sid)
    /\ Cardinality(DOMAIN sessions) = 6
    /\ input_list = {listener}

(***************************************************************************)
(* Properties of what a turn writes to the two legs.                       *)
(***************************************************************************)
\* the turns in which SMTP.InjectCommand ran its intercept to the end of
\* the outbound handshake
completed_injections ==
    {st \in turns :
        /\ turn_at(st).mangle = "SMTP.InjectCommand"
        /\ turn_at(st).leg = "inbound"
        /\ turn_at(st).exc = None
        /\ ops_of(turn_at(st).ops, "wrap", "outbound") # <<>>}

\* every write of a turn to a leg: those of the vector, then the chunk the
\* session loop forwarded
all_writes(t, leg) ==
    [i \in 1..Len(ops_of(t.ops, "sendall", leg)) |->
        ops_of(t.ops, "sendall", leg)[i].data] \o forwarded_to(t, leg)

\* C36: SMTP.InjectCommand: when the intercept of a client chunk with
\* STARTTLS completes, the chunk with INJECTED_INVALID_COMMAND appended is
\* written upstream exactly once, in cleartext before the outbound
\* handshake; the mangler hands nothing back to the session loop, and
\* nothing is written upstream again after the handshake.
C36_InjectedOnce ==
    \A st \in completed_injections :
        LET t == turn_at(st)
        IN  /\ all_writes(t, "outbound")
                  = <<t.data \o <<"I","N","J","E","C","T","E","D","_","I","N","V","A","L","I","D","_","C","O","M","M","A","N","D","\r","\n">>>>
            /\ t.out = NoData

\* (it holds) the lengthened chunk is written upstream by the vector, before
\* the outbound handshake, and is then handed back to the session loop,
\* which forwards it a second time, through the TLS layer
InjectedTwice ==
    \A st \in completed_injections :
        LET t == turn_at(st)
            injected == t.data \o <<"I","N","J","E","C","T","E","D","_","I","N","V","A","L","I","D","_","C","O","M","M","A","N","D","\r","\n">>
        IN  /\ all_writes(t, "outbound") = <<injected, injected>>
            /\ t.out = injected
            /\ \E i \in 1..Len(t.ops) :
                  /\ t.ops[i] = op_sendall("outbound", injected)
                  /\ \A j \in 1..i : t.ops[j] # op_wrap("outbound", "client")
            /\ session_after(st).outbound.socket_ssl = "client"

\* the turns in which the mangler returned None or the empty string
null_turns ==
    {st \in turns :
        /\ Len(turn_at(st).data) > 0
        /\ turn_at(st).mangle # None
        /\ turn_at(st).exc = None
        /\ turn_at(st).out = NoData}

opposite(t) == IF t.leg = "inbound" THEN "outbound" ELSE "inbound"

\* C38, as the specification states it: when a mangler returns None or the
\* empty string, nothing is written to the opposite leg and the sndbuf of
\* that leg is left as it was.
C38_NullOutputUnchanged ==
    \A st \in null_turns :
        LET t == turn_at(st)
        IN  /\ all_writes(t, opposite(t)) = <<>>
            /\ session_after(st)[opposite(t)].sndbuf = t.before[opposite(t)].sndbuf

\* C38, as the code has it: when a mangler returns None or the empty
\* string, the session loop writes nothing to the opposite leg, and the
\* sndbuf of that leg is left as it was unless the mangler itself wrote to
\* that leg, as the intercepts do with the command they send upstream; so
\* after a client command was suppressed or answered with an injected
\* response and nothing else, the outbound sndbuf still holds the last
\* chunk written upstream and only the inbound sndbuf has changed.
C38_NullOutputFrame ==
    \A st \in null_turns :
        LET t == turn_at(st)
            opp == opposite(t)
        IN  /\ forwarded_to(t, opp) = <<>>
            /\ session_after(st)[opp].sndbuf =
                  IF sent_by_vector(t, opp) = <<>> THEN t.before[opp].sndbuf
                  ELSE sent_by_vector(t, opp)[1]
            /\ session_after(st)[opp].recvbuf = t.before[opp].recvbuf
                  \/ ops_of(t.ops, "recv", opp) # <<>>
            /\ t.leg = "inbound" /\ all_writes(t, "outbound") = <<>> =>
                  /\ session_after(st).outbound.sndbuf = t.before.outbound.sndbuf
                  /\ session_after(st).inbound.sndbuf =
                        IF sent_by_vector(t, "inbound") = <<>>
                        THEN t.before.inbound.sndbuf
                        ELSE sent_by_vector(t, "inbound")[1]

\* EHLO was forwarded, and STARTTLS was then answered by
\* SMTP.StripWithInvalidResponseCode: the outbound sndbuf still is the EHLO
C38_Witness ==
    \E st \in null_turns :
        /\ turn_at(st).mangle = "SMTP.StripWithInvalidResponseCode"
        /\ st[2] = 2
        /\ wire[st[1]][1].leg = "inbound"
        /\ wire[st[1]][1].out = <<"E","H","L","O"," ","x","\r","\n">>
        /\ turn_at(st).data = <<"S","T","A","R","T","T","L","S","\r","\n">>
        /\ session_after(st).outbound.sndbuf = <<"E","H","L","O"," ","x","\r","\n">>
        /\ session_after(st).inbound.sndbuf = <<"2","0","0"," ","S","T","R","I","P","T","L","S","\r","\n">>
        /\ turn_at(st).before.inbound.sndbuf = <<>>

\* C39: in every UntrustedIntercept vector the response of the upstream
\* server to the forwarded TLS-initiation command is consumed by the
\* handler and never forwarded to the client: for each intercepted command
\* the client gets exactly one acceptance, the one the proxy injected
\* before the inbound handshake.
C39_ResponseConsumed ==
    \A st \in turns :
        LET t == turn_at(st)
        IN  intercepting(t) =>
              /\ Len(all_writes(t, "inbound")) = 1
              /\ t.ops[1] = op_sendall("inbound", all_writes(t, "inbound")[1])
              /\ \A i, j \in 1..Len(t.ops) :
                    t.ops[i].op = "sendall" /\ t.ops[i].leg = "inbound"
                    /\ t.ops[j] \in {op_wrap("inbound", "server"),
                                    op_recv("outbound", t.ops[j].data)} => i < j
              /\ t.out = NoData
              /\ session_after(st).inbound.sndbuf = all_writes(t, "inbound")[1]

\* the IRC intercept read the 670 of the server and ran to its end: the
\* client was sent the acceptance of the proxy and nothing else
C39_Witness ==
    \E st \in turns :
        /\ turn_at(st).mangle = "IRC.UntrustedIntercept"
        /\ intercepting(turn_at(st))
        /\ turn_at(st).exc = None
        /\ Len(ops_of(turn_at(st).ops, "recv", "outbound")) = 1
        /\ In(<<" ","6","7","0"," ">>, ops_of(turn_at(st).ops, "recv", "outbound")[1].data)
        /\ session_after(st).inbound.sndbuf
              # ops_of(turn_at(st).ops, "recv", "outbound")[1].data
        /\ session_after(st).outbound.recvbuf
              = ops_of(turn_at(st).ops, "recv", "outbound")[1].data

(***************************************************************************)
(* Properties of get_mangle with detected protocols, checked under         *)
(* SpecDetectTwo.                                                          *)
(***************************************************************************)
\* the chunks that may come next on a leg
next_chunks(leg) == IF leg = "inbound" THEN env.client ELSE env.server

\* get_mangle for the Session sid as the next chunk data leaves it
selected(sid, data) ==
    get_mangle(dispatcher, sid, [objs[sid] EXCEPT !.protocol = detect(@, data)])

\* C37: get_mangle never fails when it selects a vector for a new session:
\* the vector of the latest record of the client IP is always in the list
\* of vectors of the protocol of the new session, so that the index lookup
\* of the rotation succeeds, also when the protocol is detected from
\* keywords and two sessions of one client IP are detected as different
\* protocols.
C37_SelectionNeverFails ==
    \A st \in turns : ~(turn_at(st).exc = "ValueError" /\ turn_at(st).mangle = None)

\* (it holds) get_mangle fails only for a session without binding whose
\* client has a latest record with a vector of another protocol
SelectionFails_OnOtherProtocol ==
    pc = "main_loop" =>
        \A sid \in 1..Len(objs) : \A leg \in {"inbound", "outbound"} :
            \A data \in next_chunks(leg) :
                selected(sid, data).exc # None =>
                    /\ selected(sid, data).exc = "ValueError"
                    /\ sid \notin DOMAIN session_to_mangle
                    /\ results # <<>>
                    /\ PROTO_ID(results[Len(results)].mangle)
                          # detect(objs[sid].protocol, data).protocol_id
                    /\ detect(objs[sid].protocol, data).protocol_id # PROTO_None

=============================================================================
